---- MODULE Spec2Model ----
(***************************************************************************)
(* A model of the quiz extraction pipeline of backend/main.py:             *)
(* PDFProcessor.process -> PDFQuestionExtractor.extract_from_document ->   *)
(* _extract_text_based -> _split_into_questions / _process_question_text.  *)
(*                                                                         *)
(* A text is a sequence of symbols.  A symbol is a TLA+ string: either one *)
(* character ("Q", ".", "1", " ", "\n", "A") or a word of letters that no  *)
(* pattern of the program can match a proper part of ("What", "Question",  *)
(* "correct").  Len(symbol) is the number of characters it stands for.     *)
(* The regular expressions of the program are kept as pattern trees and    *)
(* matched by a backtracking matcher with the priorities of Python's re.   *)
(***************************************************************************)
EXTENDS Integers, Sequences, FiniteSets, TLC

NL == "\n"

(* ------------------------------------------------------------------ *)
(* Symbols and character classes                                       *)
(* ------------------------------------------------------------------ *)

Digits == {"0", "1", "2", "3", "4", "5", "6", "7", "8", "9"}

\* str.lower() on one symbol, for the symbols the documents and patterns use.
Lower(sym) ==
    CASE sym = "A" -> "a" [] sym = "B" -> "b" [] sym = "C" -> "c"
      [] sym = "D" -> "d" [] sym = "E" -> "e" [] sym = "F" -> "f"
      [] sym = "Q" -> "q"
      [] sym = "The" -> "the" [] sym = "Correct" -> "correct"
      [] sym = "Answer" -> "answer" [] sym = "Question" -> "question"
      [] sym = "Explanation" -> "explanation" [] sym = "Therefore" -> "therefore"
      [] sym = "Thus" -> "thus" [] sym = "Things" -> "things"
      [] sym = "Remember" -> "remember" [] sym = "Note" -> "note"
      [] sym = "Important" -> "important" [] sym = "Copyright" -> "copyright"
      [] sym = "Option" -> "option" [] sym = "What" -> "what"
      [] sym = "Table" -> "table" [] sym = "Skipped" -> "skipped"
      [] OTHER -> sym

\* A symbol of more than one character is a word of letters.
IsWord(sym) == Len(sym) > 1

IsLetter(sym) ==
    sym \in
    {"A", "B", "C", "D", "E", "F", "G", "H", "I", "J", "K", "L", "M", "N", "O", "P",
     "Q", "R", "S", "T", "U", "V", "W", "X", "Y", "Z",
     "a", "b", "c", "d", "e", "f", "g", "h", "i", "j", "k", "l", "m", "n", "o", "p",
     "q", "r", "s", "t", "u", "v", "w", "x", "y", "z"}

\* \w: a letter, a digit, the underscore; a word is made of letters.
IsWordChar(sym) == IsWord(sym) \/ IsLetter(sym) \/ sym \in Digits \/ sym = "_"

\* Membership of a symbol in a character class of the patterns; ic is
\* re.IGNORECASE, dotall is re.DOTALL.
InClass(c, sym, fl) ==
    CASE c = "dot"   -> fl.dotall \/ sym # NL                     \* .
      [] c = "s"     -> sym \in {" ", NL, "\t"}                    \* \s
      [] c = "d"     -> sym \in Digits                             \* \d
      [] c = "AF"    -> sym \in {"A", "B", "C", "D", "E", "F"}             \* [A-F]
                        \/ (fl.ic /\ sym \in {"a", "b", "c", "d", "e", "f"})
      [] c = "dotp"  -> sym \in {".", ")"}                         \* [\.\)]
      [] c = "cdp"   -> sym \in {":", ".", ")"}                    \* [:\.\)]
      [] c = "cs"    -> sym \in {":", " ", NL, "\t"}               \* [:\s]
      [] c = "dc"    -> sym \in {".", ":"}                         \* [\.:]
      [] c = "sptab" -> sym \in {" ", "\t"}                        \* [ \t]
      [] c = "alnum" -> IsWord(sym) \/ IsLetter(sym) \/ sym \in Digits  \* [A-Za-z0-9]
      [] c = "alpha" -> IsWord(sym) \/ IsLetter(sym)               \* [A-Za-z]+ part
      [] c = "letter" -> IsLetter(sym)                             \* [A-Za-z], one
      [] c = "dash"  -> sym = "-"                                  \* -
      [] c = "numc"  -> sym \in Digits \cup {".", "$"}             \* [\d\.\$]
      [] OTHER -> FALSE

\* A literal of a pattern against a symbol of the text.
SymEq(sym, w, fl) == IF fl.ic THEN Lower(sym) = Lower(w) ELSE sym = w

(* ------------------------------------------------------------------ *)
(* Pattern trees                                                       *)
(* ------------------------------------------------------------------ *)

Lit(w)      == [t |-> "lit", w |-> w]
Cls(c)      == [t |-> "cls", c |-> c]
Cat(a)      == [t |-> "cat", a |-> a]
Alt(a)      == [t |-> "alt", a |-> a]
Star(r)     == [t |-> "star", r |-> r]        \* r*   (r takes one symbol)
LazyStar(r) == [t |-> "lazy", r |-> r]        \* r*?  (r takes one symbol)
Plus(r)     == Cat(<<r, Star(r)>>)            \* r+
Opt(r)      == [t |-> "opt", r |-> r]         \* r?
Look(r)     == [t |-> "look", r |-> r]        \* (?=r)
Grp(n, r)   == Cat(<<[t |-> "gs", n |-> n], r, [t |-> "ge", n |-> n]>>)  \* (r)
Eos         == [t |-> "eos"]                  \* $ without re.MULTILINE
Eoz         == [t |-> "eoz"]                  \* \Z
Eol         == [t |-> "eol"]                  \* $ with re.MULTILINE
Bos         == [t |-> "bos"]                  \* ^ without re.MULTILINE
Bol         == [t |-> "bol"]                  \* ^ with re.MULTILINE
Wb          == [t |-> "wb"]                   \* \b

\* The words of a literal phrase, separated by single blanks.
RECURSIVE Phrase(_)
Phrase(ws) ==
    IF Len(ws) = 1 THEN <<Lit(ws[1])>>
    ELSE <<Lit(ws[1]), Lit(" ")>> \o Phrase(Tail(ws))

NoFlags == [ic |-> FALSE, dotall |-> FALSE]
IC      == [ic |-> TRUE,  dotall |-> FALSE]
ICDot   == [ic |-> TRUE,  dotall |-> TRUE]
DotAll  == [ic |-> FALSE, dotall |-> TRUE]

\* The groups of a match before any has taken part: the patterns have at
\* most two groups.
NoGroups == [n \in 1..2 |-> <<0, 0>>]

Fail == [ok |-> FALSE, e |-> 0, g |-> NoGroups]

SetMin(P) == CHOOSE p \in P : \A q \in P : p <= q

SetMax(P) == CHOOSE p \in P : \A q \in P : p >= q

\* How far a repetition of the one-symbol pattern r (a literal or a class)
\* can run from position i: the position after the last symbol of the longest
\* run of symbols it takes.
Extent(r, s, i, fl) ==
    LET Takes(sym) == IF r.t = "lit" THEN SymEq(sym, r.w, fl) ELSE InClass(r.c, sym, fl)
    IN  SetMin({j \in i..(Len(s) + 1) : j = Len(s) + 1 \/ ~Takes(s[j])})

(* ------------------------------------------------------------------ *)
(* The matcher: re.match at position i of s of the patterns of stack   *)
(* in sequence.  Alternatives are tried in Python's order: the first   *)
(* branch of an alternation, the longest repetition of a greedy star   *)
(* that lets the rest match, the shortest of a lazy one.  g[n] is      *)
(* <<start, end>> of group n (end exclusive), <<0, 0>> when the group  *)
(* took no part.                                                       *)
(* ------------------------------------------------------------------ *)
RECURSIVE MatchK(_, _, _, _, _)
MatchK(stack, s, i, g, fl) ==
    IF stack = <<>> THEN [ok |-> TRUE, e |-> i, g |-> g]
    ELSE
    LET n    == Head(stack)
        rest == Tail(stack)
    IN  CASE n.t = "lit" ->
               IF i <= Len(s) /\ SymEq(s[i], n.w, fl)
               THEN MatchK(rest, s, i + 1, g, fl) ELSE Fail
          [] n.t = "cls" ->
               IF i <= Len(s) /\ InClass(n.c, s[i], fl)
               THEN MatchK(rest, s, i + 1, g, fl) ELSE Fail
          [] n.t = "cat" -> MatchK(n.a \o rest, s, i, g, fl)
          [] n.t = "alt" ->
               IF n.a = <<>> THEN Fail
               ELSE LET r1 == MatchK(<<Head(n.a)>> \o rest, s, i, g, fl)
                    IN  IF r1.ok THEN r1
                        ELSE MatchK(<<Alt(Tail(n.a))>> \o rest, s, i, g, fl)
          [] n.t = "star" ->
               LET ends == {j \in i..Extent(n.r, s, i, fl) :
                                MatchK(rest, s, j, g, fl).ok}
               IN  IF ends = {} THEN Fail ELSE MatchK(rest, s, SetMax(ends), g, fl)
          [] n.t = "lazy" ->
               LET ends == {j \in i..Extent(n.r, s, i, fl) :
                                MatchK(rest, s, j, g, fl).ok}
               IN  IF ends = {} THEN Fail ELSE MatchK(rest, s, SetMin(ends), g, fl)
          [] n.t = "opt" ->
               LET r1 == MatchK(<<n.r>> \o rest, s, i, g, fl)
               IN  IF r1.ok THEN r1 ELSE MatchK(rest, s, i, g, fl)
          [] n.t = "look" ->
               IF MatchK(<<n.r>>, s, i, g, fl).ok
               THEN MatchK(rest, s, i, g, fl) ELSE Fail
          [] n.t = "gs" ->
               MatchK(rest, s, i, [g EXCEPT ![n.n] = <<i, 0>>], fl)
          [] n.t = "ge" ->
               MatchK(rest, s, i, [g EXCEPT ![n.n] = <<g[n.n][1], i>>], fl)
          [] n.t = "eos" ->
               IF i = Len(s) + 1 \/ (i = Len(s) /\ s[i] = NL)
               THEN MatchK(rest, s, i, g, fl) ELSE Fail
          [] n.t = "eoz" ->
               IF i = Len(s) + 1 THEN MatchK(rest, s, i, g, fl) ELSE Fail
          [] n.t = "eol" ->
               IF i = Len(s) + 1 \/ (i <= Len(s) /\ s[i] = NL)
               THEN MatchK(rest, s, i, g, fl) ELSE Fail
          [] n.t = "bos" ->
               IF i = 1 THEN MatchK(rest, s, i, g, fl) ELSE Fail
          [] n.t = "bol" ->
               IF i = 1 \/ (i > 1 /\ s[i - 1] = NL)
               THEN MatchK(rest, s, i, g, fl) ELSE Fail
          [] n.t = "wb" ->
               IF (i > 1 /\ IsWordChar(s[i - 1])) # (i <= Len(s) /\ IsWordChar(s[i]))
               THEN MatchK(rest, s, i, g, fl) ELSE Fail
          [] OTHER -> Fail

\* The match of re that begins at position p, as a match object.
MatchAt(re, s, p, fl) ==
    LET AsMatch(r) == [ok |-> r.ok, s |-> p, e |-> r.e, g |-> r.g]
    IN  AsMatch(MatchK(<<re>>, s, p, NoGroups, fl))

\* The positions of s from position from on where a match of re begins.
Starts(re, s, from, fl) ==
    {p \in from..(Len(s) + 1) : MatchK(<<re>>, s, p, NoGroups, fl).ok}

\* re.search(re, s): the match at the leftmost of the positions where a match
\* begins.
Search(re, s, fl) ==
    LET FirstOf(P) == IF P = {} THEN [ok |-> FALSE, s |-> 0, e |-> 0, g |-> NoGroups]
                      ELSE MatchAt(re, s, SetMin(P), fl)
    IN  FirstOf(Starts(re, s, 1, fl))

\* list(re.finditer(re, s)): the non-overlapping matches, left to right, among
\* the positions P where a match begins; after an empty match the scan moves
\* on by one symbol.
RECURSIVE FindIterFrom(_, _, _, _, _)
FindIterFrom(re, s, P, from, fl) ==
    LET FindIterNext(m) ==
            <<m>> \o FindIterFrom(re, s, P, IF m.e > m.s THEN m.e ELSE m.e + 1, fl)
    IN  IF \A p \in P : p < from THEN <<>>
        ELSE FindIterNext(MatchAt(re, s, SetMin({p \in P : p >= from}), fl))

FindIter(re, s, fl) == FindIterFrom(re, s, Starts(re, s, 1, fl), 1, fl)

\* s[a:b] of Python with 1-based a and exclusive b.
Slice(s, a, b) == IF b <= a THEN <<>> ELSE SubSeq(s, a, b - 1)

\* The text of group n of match m.
Group(s, m, n) == Slice(s, m.g[n][1], m.g[n][2])

\* re.sub(re, repl, s): every match of matches replaced by repl, the text
\* between the matches kept.
RECURSIVE SubFrom(_, _, _, _, _)
SubFrom(matches, repl, s, k, from) ==
    IF k > Len(matches) THEN Slice(s, from, Len(s) + 1)
    ELSE Slice(s, from, matches[k].s) \o repl
         \o SubFrom(matches, repl, s, k + 1, matches[k].e)

Sub(re, repl, s, fl) == SubFrom(FindIter(re, s, fl), repl, s, 1, 1)

IsSpace(sym) == sym \in {" ", NL, "\t"}

\* str.strip()
RECURSIVE LStrip(_)
LStrip(s) == IF s # <<>> /\ IsSpace(Head(s)) THEN LStrip(Tail(s)) ELSE s

RECURSIVE RStrip(_)
RStrip(s) ==
    IF s # <<>> /\ IsSpace(s[Len(s)]) THEN RStrip(SubSeq(s, 1, Len(s) - 1)) ELSE s

Strip(s) == LStrip(RStrip(s))

\* len(text): the number of characters.
RECURSIVE CharLen(_)
CharLen(s) == IF s = <<>> THEN 0 ELSE Len(Head(s)) + CharLen(Tail(s))

\* \s, \d, [A-F] and . as patterns.
S == Cls("s")

D == Cls("d")

AF == Cls("AF")

Dot == Cls("dot")

(* ------------------------------------------------------------------ *)
(* MathExtractor                                                       *)
(* ------------------------------------------------------------------ *)

\* The LaTeX patterns of extract_math (re.DOTALL), in the order tried.  The
\* commands \begin{equation}, \end{equation}, \begin{align}, \end{align} are
\* one symbol each.
LatexPatterns ==
    << \* \$\$.+?\$\$
       Cat(<<Lit("$"), Lit("$"), Dot, LazyStar(Dot), Lit("$"), Lit("$")>>),
       \* \$.+?\$
       Cat(<<Lit("$"), Dot, LazyStar(Dot), Lit("$")>>),
       \* \\begin\{equation\}.+?\\end\{equation\}
       Cat(<<Lit("\\begin{equation}"), Dot, LazyStar(Dot), Lit("\\end{equation}")>>),
       \* \\begin\{align\}.+?\\end\{align\}
       Cat(<<Lit("\\begin{align}"), Dot, LazyStar(Dot), Lit("\\end{align}")>>) >>

RECURSIVE LatexFrom(_, _)
LatexFrom(text, p) ==
    LET \* The texts of the matches of one pattern, in order.
        MatchTexts(matches) ==
            [k \in 1..Len(matches) |-> Slice(text, matches[k].s, matches[k].e)]
    IN  IF p > Len(LatexPatterns) THEN <<>>
        ELSE MatchTexts(FindIter(LatexPatterns[p], text, DotAll)) \o LatexFrom(text, p + 1)

\* Whether sub occurs in text at position k.
OccursAt(sub, text, k) ==
    k + Len(sub) - 1 <= Len(text) /\ SubSeq(text, k, k + Len(sub) - 1) = sub

\* sub in text
IsSubstr(sub, text) == \E k \in 1..(Len(text) + 1) : OccursAt(sub, text, k)

\* text.replace(old, new) for a non-empty old.
RECURSIVE Replace(_, _, _)
Replace(text, old, new) ==
    LET hits == {k \in 1..Len(text) : OccursAt(old, text, k)}
    IN  IF hits = {} THEN text
        ELSE SubSeq(text, 1, SetMin(hits) - 1) \o new
             \o Replace(Slice(text, SetMin(hits) + Len(old), Len(text) + 1), old, new)

RECURSIVE ReplaceEach(_, _)
ReplaceEach(text, exprs) ==
    IF exprs = <<>> THEN text
    ELSE ReplaceEach(Replace(text, Head(exprs), <<" ">>), Tail(exprs))

\* text.split(): the maximal runs of symbols that are not white space.
RECURSIVE Words(_)
Words(text) ==
    LET t == LStrip(text)
    IN  IF t = <<>> THEN <<>>
        ELSE LET stop == SetMin({j \in 2..(Len(t) + 1) : j = Len(t) + 1 \/ IsSpace(t[j])})
             IN  <<SubSeq(t, 1, stop - 1)>> \o Words(Slice(t, stop, Len(t) + 1))

\* The loop of extract_math over the words left once the LaTeX expressions
\* are taken out.
RECURSIVE MathWords(_, _)
MathWords(expressions, words) ==
    LET \* [=\+\-\*\/\^\(\)] of math_symbols; its other alternatives are single
        \* non-ASCII signs (the root, sum and integral signs, Greek letters),
        \* which the documents of this model do not contain.
        MathSymbols == {"=", "+", "-", "*", "/", "^", "(", ")"}
        \* \b[A-Za-z]\s*=
        var_assign == Cat(<<Wb, Cls("letter"), Star(S), Lit("=")>>)
        InSeq(v, q) == \E k \in 1..Len(q) : q[k] = v
    IN  IF words = <<>> THEN expressions
        ELSE LET word == Head(words)
                 symbols == Cardinality({k \in 1..Len(word) : word[k] \in MathSymbols})
                 is_math == symbols > 1 \/ Search(var_assign, word, NoFlags).ok
             IN  MathWords(IF is_math /\ ~InSeq(word, expressions)
                           THEN Append(expressions, word) ELSE expressions,
                           Tail(words))

\* MathExtractor.extract_math: once the LaTeX expressions are found, they are
\* taken out of the text and the words left are looked at.
extract_math(text) ==
    LET MathBeyond(latex) == MathWords(latex, Words(ReplaceEach(text, latex)))
    IN  MathBeyond(LatexFrom(text, 1))

(* ------------------------------------------------------------------ *)
(* PDFTextCleaner                                                      *)
(* ------------------------------------------------------------------ *)

\* (?=\n|$)
ToLineEnd == Look(Alt(<<Lit(NL), Eos>>))

\* PDFTextCleaner.clean_text
clean_text(text) ==
    LET \* The copyright sign of the copyright pattern (one character).
        CSign == "@"
        \* (?:©|Copyright\s*©?)\s*\d{4}(?:-\d{4})?\s*[A-Za-z0-9]+(?:Prep)?\.?.*?(?=\n|$)
        CopyrightRe ==
            Cat(<<Alt(<<Lit(CSign), Cat(<<Lit("Copyright"), Star(S), Opt(Lit(CSign))>>)>>),
                  Star(S), D, D, D, D, Opt(Cat(<<Lit("-"), D, D, D, D>>)), Star(S),
                  Plus(Cls("alnum")), Opt(Lit("Prep")), Opt(Lit(".")),
                  LazyStar(Dot), ToLineEnd>>)
        \* \n\s*\d+\s*\n
        PageNumLineRe == Cat(<<Lit(NL), Star(S), Plus(D), Star(S), Lit(NL)>>)
        \* ^[ \t]*\d+[ \t]*$   (re.MULTILINE)
        PageNumOnlyRe ==
            Cat(<<Bol, Star(Cls("sptab")), Plus(D), Star(Cls("sptab")), Eol>>)
        t1 == Sub(CopyrightRe, <<>>, text, IC)
        t2 == Sub(PageNumLineRe, <<NL>>, t1, NoFlags)
        t3 == Sub(PageNumOnlyRe, <<>>, t2, NoFlags)
        t4 == Sub(Plus(Lit(" ")), <<" ">>, t3, NoFlags)
        t5 == Sub(Plus(Lit(NL)), <<NL>>, t4, NoFlags)
    IN  Strip(t5)

\* The three option patterns of extract_options, in the order tried.
OptionPatterns ==
    << \* \n\s*([A-F])[\.\)]\s+(.*?)(?=\n\s*[A-F][\.\)]|\Z)
       Cat(<<Lit(NL), Star(S), Grp(1, AF), Cls("dotp"), Plus(S),
             Grp(2, LazyStar(Dot)),
             Look(Alt(<<Cat(<<Lit(NL), Star(S), AF, Cls("dotp")>>), Eoz>>))>>),
       \* ([A-F])[\.\)]\s+(.*?)(?=\s+[A-F][\.\)]|\Z)
       Cat(<<Grp(1, AF), Cls("dotp"), Plus(S), Grp(2, LazyStar(Dot)),
             Look(Alt(<<Cat(<<Plus(S), AF, Cls("dotp")>>), Eoz>>))>>),
       \* ([A-F])[\.\)]\s+(.*?)(?=\s+[A-F][\.\)]|\n\s*[A-F][\.\)]|\Z)
       Cat(<<Grp(1, AF), Cls("dotp"), Plus(S), Grp(2, LazyStar(Dot)),
             Look(Alt(<<Cat(<<Plus(S), AF, Cls("dotp")>>),
                        Cat(<<Lit(NL), Star(S), AF, Cls("dotp")>>), Eoz>>))>> ) >>

\* options[letter] = text
DictSet(d, k, v) == [j \in DOMAIN d \cup {k} |-> IF j = k THEN v ELSE d[j]]

EmptyDict == [j \in {} |-> <<>>]

\* The loop over the matches of one option pattern.
RECURSIVE AddOptions(_, _, _, _)
AddOptions(options, text, matches, k) ==
    LET \* (?:is correct|correct answer|is incorrect).*   (re.IGNORECASE)
        OptionTailRe ==
            Cat(<<Alt(<<Cat(Phrase(<<"is", "correct">>)),
                        Cat(Phrase(<<"correct", "answer">>)),
                        Cat(Phrase(<<"is", "incorrect">>))>>),
                  Star(Dot)>>)
        \* if option_text: options[letter] = option_text.strip()
        AddOption(letter, option_text) ==
            IF option_text # <<>> THEN DictSet(options, letter, Strip(option_text))
            ELSE options
    IN  IF k > Len(matches) THEN options
        ELSE AddOptions(AddOption(Group(text, matches[k], 1)[1],
                                  Sub(OptionTailRe, <<>>,
                                      Strip(Group(text, matches[k], 2)), IC)),
                        text, matches, k + 1)

\* The loop over the option patterns: stop at the first that leaves >= 2 options.
RECURSIVE OptionsFrom(_, _, _)
OptionsFrom(options, text, p) ==
    LET OptionsNext(found) ==
            IF Cardinality(DOMAIN found) >= 2 THEN found
            ELSE OptionsFrom(found, text, p + 1)
    IN  IF p > Len(OptionPatterns) THEN options
        ELSE OptionsNext(AddOptions(options, text,
                                    FindIter(OptionPatterns[p], text, DotAll), 1))

\* An extraction that tries the first option pattern only.
FirstPatternOptions(text) ==
    AddOptions(EmptyDict, text, FindIter(OptionPatterns[1], text, DotAll), 1)

\* PDFTextCleaner.extract_options
extract_options(text) == OptionsFrom(EmptyDict, text, 1)

\* The answer patterns of extract_correct_answer, in the order tried.
AnswerPatterns ==
    LET AnswerTail == <<Opt(Lit(".")), LazyStar(Dot), ToLineEnd>>
    IN
    << \* The correct answer is\s*([A-F])\..*?(?=\n|$)
       Cat(Phrase(<<"The", "correct", "answer", "is">>)
           \o <<Star(S), Grp(1, AF), Lit("."), LazyStar(Dot), ToLineEnd>>),
       \* Correct answer[:\s]+([A-F])\.?.*?(?=\n|$)
       Cat(Phrase(<<"Correct", "answer">>)
           \o <<Plus(Cls("cs")), Grp(1, AF)>> \o AnswerTail),
       \* The answer is\s*([A-F])\.?.*?(?=\n|$)
       Cat(Phrase(<<"The", "answer", "is">>) \o <<Star(S), Grp(1, AF)>> \o AnswerTail),
       \* Answer[:\s]+([A-F])\.?.*?(?=\n|$)
       Cat(<<Lit("Answer"), Plus(Cls("cs")), Grp(1, AF)>> \o AnswerTail),
       \* The correct choice is\s*([A-F])\.?.*?(?=\n|$)
       Cat(Phrase(<<"The", "correct", "choice", "is">>)
           \o <<Star(S), Grp(1, AF)>> \o AnswerTail),
       \* ([A-F])\s+is\s+(?:the\s+)?correct\s+(?:answer|option|choice)
       Cat(<<Grp(1, AF), Plus(S), Lit("is"), Plus(S),
             Opt(Cat(<<Lit("the"), Plus(S)>>)), Lit("correct"), Plus(S),
             Alt(<<Lit("answer"), Lit("option"), Lit("choice")>>)>>) >>

None == "None"

\* str.upper() of a captured letter.
Upper(sym) ==
    CASE sym = "a" -> "A" [] sym = "b" -> "B" [] sym = "c" -> "C"
      [] sym = "d" -> "D" [] sym = "e" -> "E" [] sym = "f" -> "F"
      [] OTHER -> sym

\* text[:match.start()] + text[match.end():]
CutMatch(text, m) == Slice(text, 1, m.s) \o Slice(text, m.e, Len(text) + 1)

\* The loop of extract_correct_answer over its patterns: the first pattern
\* that matches anywhere decides, and its match is cut out of the text.
RECURSIVE AnswerFrom(_, _)
AnswerFrom(text, p) ==
    LET AnswerNext(m) ==
            IF m.ok
            THEN [text |-> CutMatch(text, m), value |-> Upper(Group(text, m, 1)[1])]
            ELSE AnswerFrom(text, p + 1)
    IN  IF p > Len(AnswerPatterns) THEN [text |-> text, value |-> None]
        ELSE AnswerNext(Search(AnswerPatterns[p], text, ICDot))

\* PDFTextCleaner.extract_correct_answer
extract_correct_answer(text) == AnswerFrom(text, 1)

\* The section patterns of extract_things_to_remember and extract_explanation:
\* <keyword>[:\s]+(.*?)(?=\n\n|\Z)
Section(words) ==
    LET \* (?=\n\n|\Z)
        ToParaEnd == Look(Alt(<<Cat(<<Lit(NL), Lit(NL)>>), Eoz>>))
    IN  Cat(Phrase(words) \o <<Plus(Cls("cs")), Grp(1, LazyStar(Dot)), ToParaEnd>>)

\* The common loop of extract_things_to_remember and extract_explanation.
RECURSIVE SectionFrom(_, _, _)
SectionFrom(text, pats, p) ==
    LET SectionNext(m) ==
            IF m.ok
            THEN [text |-> CutMatch(text, m), value |-> Strip(Group(text, m, 1))]
            ELSE SectionFrom(text, pats, p + 1)
    IN  IF p > Len(pats) THEN [text |-> text, value |-> <<>>]
        ELSE SectionNext(Search(pats[p], text, ICDot))

\* PDFTextCleaner.extract_things_to_remember
extract_things_to_remember(text) ==
    LET RememberPatterns ==
            << \* Things to Remember[:\s]*\n(.+)$
               Cat(Phrase(<<"Things", "to", "Remember">>)
                   \o <<Star(Cls("cs")), Lit(NL), Grp(1, Plus(Dot)), Eos>>),
               Section(<<"Things", "to", "Remember">>),
               Section(<<"Remember">>),
               Section(<<"Note">>),
               Section(<<"Important">>) >>
    IN  SectionFrom(text, RememberPatterns, 1)

\* PDFTextCleaner.extract_explanation
extract_explanation(text) ==
    LET ExplanationPatterns ==
            << Section(<<"Explanation">>), Section(<<"Therefore">>), Section(<<"Thus">>) >>
    IN  SectionFrom(text, ExplanationPatterns, 1)

\* The option explanation patterns of extract_option_explanations, in the
\* order tried.
OptionExplPatterns ==
    LET CorrIncorr == Alt(<<Lit("correct"), Lit("incorrect")>>)
    IN
    << \* ([A-F])\s+is\s+(?:correct|incorrect)[\.:]?\s+(.*?)(?=(?:[A-F]\s+is\s+(?:correct|incorrect))|$)
       Cat(<<Grp(1, AF), Plus(S), Lit("is"), Plus(S), CorrIncorr, Opt(Cls("dc")),
             Plus(S), Grp(2, LazyStar(Dot)),
             Look(Alt(<<Cat(<<AF, Plus(S), Lit("is"), Plus(S), CorrIncorr>>), Eos>>))>>),
       \* Option\s+([A-F])[:\.\)]\s+(.*?)(?=(?:Option\s+[A-F])|$)
       Cat(<<Lit("Option"), Plus(S), Grp(1, AF), Cls("cdp"), Plus(S),
             Grp(2, LazyStar(Dot)),
             Look(Alt(<<Cat(<<Lit("Option"), Plus(S), AF>>), Eos>>))>>),
       \* ([A-F])\s+is\s+(?:the\s+)?(?:correct|incorrect)\s+(?:choice|option|answer)[\.:]?\s+(.*?)(?=(?:[A-F]\s+is)|$)
       Cat(<<Grp(1, AF), Plus(S), Lit("is"), Plus(S),
             Opt(Cat(<<Lit("the"), Plus(S)>>)), CorrIncorr, Plus(S),
             Alt(<<Lit("choice"), Lit("option"), Lit("answer")>>), Opt(Cls("dc")),
             Plus(S), Grp(2, LazyStar(Dot)),
             Look(Alt(<<Cat(<<AF, Plus(S), Lit("is")>>), Eos>>))>>) >>

RECURSIVE AddExplanations(_, _, _, _)
AddExplanations(expl, text, matches, k) ==
    IF k > Len(matches) THEN expl
    ELSE LET letter == Upper(Group(text, matches[k], 1)[1])
             body   == Strip(Group(text, matches[k], 2))
         IN  AddExplanations(IF body # <<>> THEN DictSet(expl, letter, body) ELSE expl,
                             text, matches, k + 1)

RECURSIVE OptionExplFrom(_, _, _)
OptionExplFrom(expl, text, p) ==
    IF p > Len(OptionExplPatterns) THEN expl
    ELSE OptionExplFrom(
             AddExplanations(expl, text, FindIter(OptionExplPatterns[p], text, ICDot), 1),
             text, p + 1)

\* PDFTextCleaner.extract_option_explanations
extract_option_explanations(text) == OptionExplFrom(EmptyDict, text, 1)

(* ------------------------------------------------------------------ *)
(* PDFQuestionExtractor: segmentation                                  *)
(* ------------------------------------------------------------------ *)

\* (?:\(Q\.\d+\))?
QRef == Opt(Cat(<<Lit("("), Lit("Q"), Lit("."), Plus(D), Lit(")")>>))

\* (?:Question\s+(\d+)(?:\(Q\.\d+\))?|Q\.?\s*(\d+)(?:\(Q\.\d+\))?)
question_pattern ==
    Alt(<<Cat(<<Lit("Question"), Plus(S), Grp(1, Plus(D)), QRef>>),
          Cat(<<Lit("Q"), Opt(Lit(".")), Star(S), Grp(2, Plus(D)), QRef>>)>>)

\* \n\s*(\d+)[\.\)]\s+
alternate_pattern ==
    Cat(<<Lit(NL), Star(S), Grp(1, Plus(D)), Cls("dotp"), Plus(S)>>)

\* \n\s*A[\.\)]\s+.*?\n\s*B[\.\)]\s+
option_pattern ==
    Cat(<<Lit(NL), Star(S), Lit("A"), Cls("dotp"), Plus(S), LazyStar(Dot),
          Lit(NL), Star(S), Lit("B"), Cls("dotp"), Plus(S)>>)

\* PDFQuestionExtractor._split_by_matches
RECURSIVE SplitByMatchesFrom(_, _, _)
SplitByMatchesFrom(text, matches, i) ==
    IF i > Len(matches) THEN <<>>
    ELSE LET start_pos == matches[i].s
             end_pos   == IF i < Len(matches) THEN matches[i + 1].s ELSE Len(text) + 1
             question_text == Slice(text, start_pos, end_pos)
         IN  (IF Strip(question_text) # <<>> THEN <<question_text>> ELSE <<>>)
             \o SplitByMatchesFrom(text, matches, i + 1)

\* A split where every run goes on to the end of the text.
SplitToTheEnd(text, matches) ==
    [k \in 1..Len(matches) |-> Slice(text, matches[k].s, Len(text) + 1)]

_split_by_matches(text, matches) == SplitByMatchesFrom(text, matches, 1)

\* text.rfind('\n', 0, end) + 1 in 1-based positions: the position after the
\* last newline before position end, 0 when there is none (rfind gave -1).
RECURSIVE AfterLastNewline(_, _)
AfterLastNewline(text, end) ==
    IF end <= 1 THEN 0
    ELSE IF text[end - 1] = NL THEN end ELSE AfterLastNewline(text, end - 1)

\* PDFQuestionExtractor._split_by_options
RECURSIVE SplitByOptionsFrom(_, _, _, _)
SplitByOptionsFrom(text, option_matches, i, prev_end) ==
    IF i > Len(option_matches) THEN <<>>
    ELSE LET found     == AfterLastNewline(text, option_matches[i].s)
             line      == IF found = 0 THEN 1 ELSE found
             start_pos == IF line < prev_end THEN prev_end ELSE line
             end_pos   == IF i < Len(option_matches)
                          THEN option_matches[i + 1].s ELSE Len(text) + 1
             question_text == Strip(Slice(text, start_pos, end_pos))
         IN  IF question_text # <<>>
             THEN <<question_text>>
                  \o SplitByOptionsFrom(text, option_matches, i + 1, end_pos)
             ELSE SplitByOptionsFrom(text, option_matches, i + 1, prev_end)

_split_by_options(text, option_matches) == SplitByOptionsFrom(text, option_matches, 1, 1)

\* PDFQuestionExtractor._split_into_questions: the runs and the warnings it
\* appends to stats.warnings.
\* A fall-back that records no warning.
SplitByOptionPatternQuietly(text, option_matches) ==
    IF option_matches # <<>>
    THEN [runs |-> _split_by_options(text, option_matches),
          warnings |-> <<"Used option-based question splitting">>]
    ELSE [runs |-> <<text>>, warnings |-> <<>>]

\* "Pattern 3" of _split_into_questions and the fall-back after it.
SplitByOptionPattern(text, option_matches) ==
    IF option_matches # <<>>
    THEN [runs |-> _split_by_options(text, option_matches),
          warnings |-> <<"Used option-based question splitting">>]
    ELSE [runs |-> <<text>>, warnings |-> <<"No clear question boundaries found">>]

\* PDFQuestionExtractor._split_into_questions
_split_into_questions(text) ==
    LET \* "Pattern 2" of _split_into_questions.
        SplitByAlternatePattern(alternate_matches) ==
            IF alternate_matches # <<>>
            THEN [runs |-> _split_by_matches(text, alternate_matches),
                  warnings |-> <<"Used alternate question numbering pattern">>]
            ELSE SplitByOptionPattern(text, FindIter(option_pattern, text, NoFlags))
        \* "Pattern 1" of _split_into_questions.
        SplitByQuestionPattern(question_matches) ==
            IF question_matches # <<>>
            THEN [runs |-> _split_by_matches(text, question_matches), warnings |-> <<>>]
            ELSE SplitByAlternatePattern(FindIter(alternate_pattern, text, NoFlags))
    IN  SplitByQuestionPattern(FindIter(question_pattern, text, NoFlags))

(* ------------------------------------------------------------------ *)
(* PDFQuestionExtractor: one run to one record                         *)
(* ------------------------------------------------------------------ *)

\* int() of a string of digits.
RECURSIVE ToInt(_)
ToInt(ds) ==
    LET DigitValue(d) ==
            CASE d = "0" -> 0 [] d = "1" -> 1 [] d = "2" -> 2 [] d = "3" -> 3
              [] d = "4" -> 4 [] d = "5" -> 5 [] d = "6" -> 6 [] d = "7" -> 7
              [] d = "8" -> 8 [] OTHER -> 9
    IN  IF ds = <<>> THEN 0
        ELSE 10 * ToInt(SubSeq(ds, 1, Len(ds) - 1)) + DigitValue(ds[Len(ds)])

\* ^(\d+)[\.\)]
pattern3 == Cat(<<Bos, Grp(1, Plus(D)), Cls("dotp")>>)

\* PDFQuestionExtractor._extract_question_id (the q_id of the pair it returns).
_extract_question_id(text, default_index) ==
    LET \* Question\s+(\d+)\s*(?:\(Q\.(\d+)\))?
        pattern1 ==
            Cat(<<Lit("Question"), Plus(S), Grp(1, Plus(D)), Star(S),
                  Opt(Cat(<<Lit("("), Lit("Q"), Lit("."), Grp(2, Plus(D)), Lit(")")>>))>>)
        \* Q\.?\s*(\d+)
        pattern2 == Cat(<<Lit("Q"), Opt(Lit(".")), Star(S), Grp(1, Plus(D))>>)
        \* "Pattern 3" and the default after it.
        IdByPattern3(match3) ==
            IF match3.ok THEN ToInt(Group(text, match3, 1)) ELSE default_index + 1
        \* "Pattern 2".
        IdByPattern2(match2) ==
            IF match2.ok THEN ToInt(Group(text, match2, 1))
            ELSE IdByPattern3(Search(pattern3, text, NoFlags))
        \* "Pattern 1".
        IdByPattern1(match1) ==
            IF match1.ok THEN ToInt(Group(text, match1, 1))
            ELSE IdByPattern2(Search(pattern2, text, NoFlags))
    IN  IdByPattern1(Search(pattern1, text, NoFlags))

\* _process_question_text once the options are extracted: the QuestionData
\* it returns.
QuestionData(q_id, text, correct_answer, things_to_remember, explanation, options) ==
    LET \* "skipped" in text.lower()
        MentionsSkipped == \E k \in 1..Len(text) : Lower(text[k]) = "skipped"
    IN
    [id                  |-> q_id,
     text                |-> Strip(text),
     options             |-> options,
     correct_answer      |-> correct_answer,
     explanation         |-> explanation,
     option_explanations |-> extract_option_explanations(explanation),
     things_to_remember  |-> things_to_remember,
     table_html          |-> "",
     has_table           |-> FALSE,
     has_math            |-> FALSE,
     is_skipped          |-> MentionsSkipped \/ DOMAIN options = {},
     math_expressions    |-> <<>>,
     validation_issues   |-> <<>>]

\* PDFQuestionExtractor._process_question_text; each of answer, remember and
\* expl is the pair (text, value) an extraction returned.
_process_question_text(text, q_id) ==
    LET \* ^(?:Question\s+\d+(?:\(Q\.\d+\))?|Q\.?\s*\d+(?:\(Q\.\d+\))?)\s*
        PrefixRe ==
            Cat(<<Bos,
                  Alt(<<Cat(<<Lit("Question"), Plus(S), Plus(D), QRef>>),
                        Cat(<<Lit("Q"), Opt(Lit(".")), Star(S), Plus(D), QRef>>)>>),
                  Star(S)>>)
        \* From "Extract options" on.
        AfterExplanation(answer, remember, expl) ==
            QuestionData(q_id, expl.text, answer.value, remember.value, expl.value,
                         extract_options(expl.text))
        \* From "Extract explanation" on.
        AfterRemember(answer, remember) ==
            AfterExplanation(answer, remember, extract_explanation(remember.text))
        \* From "Extract Things to Remember" on.
        AfterAnswer(answer) ==
            AfterRemember(answer, extract_things_to_remember(answer.text))
    IN  AfterAnswer(extract_correct_answer(Sub(PrefixRe, <<>>, clean_text(text), NoFlags)))

\* PDFQuestionExtractor._text_might_have_table
_text_might_have_table(text) ==
    LET \* str.count of a one-symbol string.
        Count(sym) == Cardinality({k \in 1..Len(text) : text[k] = sym})
    IN
    \/ Count("|") > 4
    \/ Count("\t") > 4
    \/ \E k \in 1..Len(text) : Lower(text[k]) = "table"
    \* \n\s*-{3,}
    \/ Search(Cat(<<Lit(NL), Star(S), Lit("-"), Lit("-"), Lit("-"), Star(Cls("dash"))>>),
              text, NoFlags).ok
    \* [A-Za-z]+\s+\|\s+[A-Za-z]+
    \/ Search(Cat(<<Plus(Cls("alpha")), Plus(S), Lit("|"), Plus(S), Plus(Cls("alpha"))>>),
              text, NoFlags).ok

(* ------------------------------------------------------------------ *)
(* QuestionData, ProcessingStats, ProcessingResult                     *)
(* ------------------------------------------------------------------ *)

\* A has_options that is true of every record.
HasOptionsAlways(q) == TRUE

\* QuestionData.has_options
has_options(q) == DOMAIN q.options # {}

\* QuestionData._generate_answer_html: the lines it joins.
_generate_answer_html(q) ==
    LET \* sorted(self.options.keys()) restricted to the letters with an
        \* explanation that are not the correct answer: the "X is incorrect."
        \* lines, in order.
        Said(l) == /\ l \in DOMAIN q.options
                   /\ l # q.correct_answer
                   /\ l \in DOMAIN q.option_explanations
        letters == SelectSeq(<<"A", "B", "C", "D", "E", "F">>, Said)
        IncorrectLines ==
            [k \in 1..Len(letters) |->
                <<letters[k], " ", "is", " ", "incorrect", ".", " ">>
                \o q.option_explanations[letters[k]]]
    IN
    IF q.correct_answer = None THEN <<>>
    ELSE <<<<"The", " ", "correct", " ", "answer", " ", "is", " ", q.correct_answer, ".">>>>
         \o (IF q.explanation # <<>> THEN <<q.explanation>> ELSE <<>>)
         \o IncorrectLines
         \o (IF q.things_to_remember # <<>>
             THEN <<<<"Things", " ", "to", " ", "Remember", ":">>, q.things_to_remember>>
             ELSE <<>>)

\* The keys a dictionary has on top of the ones listed in base.
WithKeys(base, extra) == [k \in DOMAIN base \cup DOMAIN extra |->
                             IF k \in DOMAIN extra THEN extra[k] ELSE base[k]]

\* A serialization that writes every key, whatever the record holds.
ToDictWithEveryKey(q) ==
    [id |-> q.id, question |-> q.text, options |-> q.options,
     correct |-> q.correct_answer, explanation |-> q.explanation,
     things_to_remember |-> q.things_to_remember,
     has_options |-> has_options(q),
     type |-> IF has_options(q) THEN "MULTIPLE_CHOICE" ELSE "UNKNOWN",
     is_skipped |-> q.is_skipped,
     answer_html |-> _generate_answer_html(q),
     has_table |-> q.has_table, table_html |-> q.table_html,
     contains_math |-> q.has_math, math_expressions |-> q.math_expressions,
     option_explanations |-> q.option_explanations,
     validation_issues |-> q.validation_issues]

\* QuestionData.to_dict
QuestionToDict(q) ==
    LET base == [id |-> q.id, question |-> q.text, options |-> q.options,
                 correct |-> q.correct_answer, explanation |-> q.explanation,
                 things_to_remember |-> q.things_to_remember,
                 has_options |-> has_options(q),
                 type |-> IF has_options(q) THEN "MULTIPLE_CHOICE" ELSE "UNKNOWN",
                 is_skipped |-> q.is_skipped,
                 answer_html |-> _generate_answer_html(q)]
        table == IF q.has_table
                 THEN [has_table |-> TRUE, table_html |-> q.table_html] ELSE <<>>
        math  == IF q.has_math
                 THEN [contains_math |-> TRUE, math_expressions |-> q.math_expressions]
                 ELSE <<>>
        expl  == IF DOMAIN q.option_explanations # {}
                 THEN [option_explanations |-> q.option_explanations] ELSE <<>>
        issues == IF q.validation_issues # <<>>
                  THEN [validation_issues |-> q.validation_issues] ELSE <<>>
    IN  WithKeys(WithKeys(WithKeys(WithKeys(base, table), math), expl), issues)

\* ProcessingStats.__init__ (start_time left out).
NewStats ==
    [total_pages |-> 0, processed_pages |-> 0, questions_found |-> 0,
     tables_found |-> 0, math_found |-> 0, errors |-> <<>>, warnings |-> <<>>,
     ocr_used |-> FALSE]

\* ProcessingResult.__init__
NewResult == [questions |-> <<>>, total_pages |-> 0, error |-> None, stats |-> NewStats]

\* ProcessingResult.to_dict: the key "error" is there only for a non-empty error.
ResultToDict(r) ==
    WithKeys([questions |-> [k \in 1..Len(r.questions) |-> QuestionToDict(r.questions[k])],
              total_questions |-> Len(r.questions),
              total_pages |-> r.total_pages,
              stats |-> r.stats],
             IF r.error # None /\ r.error # "" THEN [error |-> r.error] ELSE <<>>)

(* ------------------------------------------------------------------ *)
(* The documents                                                       *)
(* ------------------------------------------------------------------ *)

\* The most pages a document has.
MaxPages == 2

\* The document of the end-to-end example, on one page:
\* Q.1 What is 2+2? A. 3 B. 4 C. 5 D. 6 The correct answer is B.
\* Q.2 What is 3+3? A. 5 B. 6 C. 7 The correct answer is B.
EndToEndText ==
    <<"Q", ".", "1", " ", "What", " ", "is", " ", "2", "+", "2", "?", " ",
      "A", ".", " ", "3", " ", "B", ".", " ", "4", " ", "C", ".", " ", "5", " ",
      "D", ".", " ", "6", " ",
      "The", " ", "correct", " ", "answer", " ", "is", " ", "B", ".", " ",
      "Q", ".", "2", " ", "What", " ", "is", " ", "3", "+", "3", "?", " ",
      "A", ".", " ", "5", " ", "B", ".", " ", "6", " ", "C", ".", " ", "7", " ",
      "The", " ", "correct", " ", "answer", " ", "is", " ", "B", ".">>

RECURSIVE SeqsUpTo(_, _)
SeqsUpTo(X, n) ==
    IF n = 0 THEN {<<>>}
    ELSE LET shorter == SeqsUpTo(X, n - 1)
         IN  shorter \cup {Append(q, v) : q \in shorter, v \in X}

\* The documents: the pages of each.
Documents ==
    LET
        \* The texts a page can hold (page.get_text("text")).
        PageTexts ==
            { \* Q.1 What is it?
              <<"Q", ".", "1", " ", "What", " ", "is", " ", "it", "?">>,
              \* Question 2 Why table?
              <<"Question", " ", "2", " ", "Why", " ", "table", "?">>,
              \* Q.3
              <<"Q", ".", "3">>,
              \* A. x / B. y
              <<"A", ".", " ", "x", NL, "B", ".", " ", "y">>,
              \* C. z
              <<"C", ".", " ", "z">>,
              \* The correct answer is C.
              <<"The", " ", "correct", " ", "answer", " ", "is", " ", "C", ".">>,
              \* 1. Why?
              <<"1", ".", " ", "Why", "?">>,
              \* What? / A. x / B. y
              <<"What", "?", NL, "A", ".", " ", "x", NL, "B", ".", " ", "y">> }
        \* The documents of single cases.
        CaseDocuments ==
            LET \* A document whose second page is a numbered item:
                \* C. z / 7. Why?
                NumberedItemDoc == <<<<"C", ".", " ", "z">>, <<"7", ".", " ", "Why", "?">>>>
                \* A document whose correct-answer statement has no period after the
                \* letter: Q.1 What is it? / Answer: A / The correct answer is B
                UnpunctuatedAnswerDoc ==
                    <<<<"Q", ".", "1", " ", "What", " ", "is", " ", "it", "?", NL,
                        "Answer", ":", " ", "A", NL,
                        "The", " ", "correct", " ", "answer", " ", "is", " ", "B">>>>
                \* A document whose option B is made of two remarks on two lines:
                \* Q.1 What? / A. x / B. is correct / is incorrect
                EmptiedOptionDoc ==
                    <<<<"Q", ".", "1", " ", "What", "?", NL, "A", ".", " ", "x", NL,
                        "B", ".", " ", "is", " ", "correct", NL, "is", " ", "incorrect">>>>
                \* A document with one option and a correct answer that is not this
                \* option: Q.1 What? / A. x / The correct answer is B.
                LoneOptionDoc ==
                    <<<<"Q", ".", "1", " ", "What", "?", NL, "A", ".", " ", "x", NL,
                        "The", " ", "correct", " ", "answer", " ", "is", " ", "B", ".">>>>
            IN  {<<EndToEndText>>, NumberedItemDoc, UnpunctuatedAnswerDoc, EmptiedOptionDoc,
                 LoneOptionDoc}
    IN  SeqsUpTo(PageTexts, MaxPages) \cup CaseDocuments

(* ------------------------------------------------------------------ *)
(* PDFProcessor.process as a state machine                             *)
(* ------------------------------------------------------------------ *)

VARIABLES
    doc,            \* the pages of the PDF at file_path
    pc,             \* where process() is: "start", "opened", "loop", "done"
    all_text,       \* _extract_text_based: all_text
    math_expressions, \* _extract_text_based: math_expressions
    questions_text, \* _extract_text_based: questions_text
    i,              \* _extract_text_based: the runs processed so far
    questions,      \* _extract_text_based: questions
    stats,          \* extractor.stats
    result,         \* processor.result
    returned,       \* what process() returned, None before it returns
    fate,           \* per processed run: "emitted", "dropped" or "raised"
    arg,            \* the argument of a function called on its own
    ret             \* <<what that function returned>>, <<>> before the call

\* The state of process() and the state of a call of one function on its own.
pipeline == <<doc, pc, all_text, math_expressions, questions_text, i, questions,
              stats, result, returned, fate>>

call == <<arg, ret>>

\* The state of the service around the processor.
VARIABLES
    heap,              \* the ProcessingStats objects there are, by identity
    processor,         \* the PDFProcessor of each job, with the locals of its call
    request,           \* the /process requests: the handler and the task of each
    processing_status, \* the module's processing_status dictionary
    now                \* time.time()

service == <<heap, processor, request, processing_status, now>>

vars == <<pipeline, call, service>>

\* No job, no request and no status: the module as it is imported.
NoService ==
    /\ heap = <<>>
    /\ processor = <<>>
    /\ request = <<>>
    /\ processing_status = <<>>
    /\ now = 0

\* PDFProcessor.__init__ and the file the processor is given.
Init ==
    /\ doc \in Documents
    /\ pc = "start"
    /\ all_text = <<>>
    /\ math_expressions = <<>>
    /\ questions_text = <<>>
    /\ i = 0
    /\ questions = <<>>
    /\ stats = NewStats
    /\ result = NewResult
    /\ returned = None
    /\ fate = <<>>
    /\ arg = <<>>
    /\ ret = <<>>
    /\ NoService

\* The message of the exception of a page read.
ReadError == "cannot read page"

\* process: fitz.open succeeds.
Open ==
    /\ pc = "start"
    /\ pc' = "opened"
    /\ result' = [result EXCEPT !.total_pages = Len(doc)]
    /\ UNCHANGED <<doc, all_text, math_expressions, questions_text, i, questions,
                   stats, returned, fate, call, service>>

\* An except branch that returns without recording the error.
FailsSilently(msg) ==
    /\ pc' = "done"
    /\ result' = result
    /\ returned' = ResultToDict(result')

\* process: what the except branch does with exception message msg.
Fails(msg) ==
    /\ pc' = "done"
    /\ result' = [result EXCEPT !.error = msg]
    /\ returned' = ResultToDict(result')

\* process: fitz.open raises.
OpenFails ==
    /\ pc = "start"
    /\ Fails("cannot open document")
    /\ UNCHANGED <<doc, all_text, math_expressions, questions_text, i, questions,
                   stats, fate, call, service>>

\* A reading of the pages from the last to the first.
RECURSIVE PagesTextBackwards(_)
PagesTextBackwards(pages) ==
    IF pages = <<>> THEN <<>>
    ELSE PagesTextBackwards(Tail(pages)) \o Head(pages) \o <<NL>>

\* The text of the pages of page_iterator, each followed by a newline.
RECURSIVE PagesText(_)
PagesText(pages) ==
    IF pages = <<>> THEN <<>> ELSE Head(pages) \o <<NL>> \o PagesText(Tail(pages))

\* extract_from_document up to the loop over the runs of _extract_text_based
\* (no page_range; pytesseract missing, so OCR_AVAILABLE is False): every
\* page is read, the math expressions found, the text split.
Extract ==
    /\ pc = "opened"
    /\ all_text' = PagesText(doc)
    /\ math_expressions' = extract_math(all_text')
    /\ \E split \in {_split_into_questions(all_text')} :
          /\ questions_text' = split.runs
          /\ stats' = [NewStats EXCEPT !.total_pages = Len(doc),
                                       !.processed_pages = Len(doc),
                                       !.math_found = Len(math_expressions'),
                                       !.warnings = split.warnings,
                                       !.questions_found = Len(split.runs)]
    /\ i' = 0
    /\ questions' = <<>>
    /\ pc' = "loop"
    /\ UNCHANGED <<doc, result, returned, fate, call, service>>

\* extract_from_document: page.get_text raises while the pages are read.
ReadFails ==
    /\ pc = "opened"
    /\ Len(doc) > 0
    /\ Fails(ReadError)
    /\ stats' = [NewStats EXCEPT !.total_pages = Len(doc), !.processed_pages = Len(doc)]
    /\ UNCHANGED <<doc, all_text, math_expressions, questions_text, i, questions, fate,
                   call, service>>

\* What the table check of one run can come to: "skip" when the text shows
\* no sign of a table; else the page read raises ("raise"), or no page holds
\* the run or no table comes out of it ("none"), or a page that holds the run
\* gives a table ("table").
TableOutcomes(q_text) ==
    IF ~_text_might_have_table(q_text) THEN {"skip"}
    ELSE {"raise", "none"}
         \cup (IF \E k \in 1..Len(doc) : IsSubstr(q_text, doc[k]) THEN {"table"} ELSE {})

\* The record of one run before the question is kept or dropped.
BuildQuestion(q_text, index, table) ==
    LET \* if question_math: question.has_math = True; ...
        WithMath(question, question_math) ==
            IF question_math # <<>>
            THEN [question EXCEPT !.has_math = TRUE, !.math_expressions = question_math]
            ELSE question
        \* if html: question.has_table = True; question.table_html = html
        WithTable(question) ==
            IF table = "table"
            THEN [question EXCEPT !.has_table = TRUE, !.table_html = "<table>"]
            ELSE question
    IN  WithTable(WithMath(_process_question_text(q_text,
                                                  _extract_question_id(q_text, index)),
                           SelectSeq(math_expressions, LAMBDA e : IsSubstr(e, q_text))))

\* The least length of a question text (the constant of the program).
MIN_QUESTION_LENGTH == 10

\* if question and question.text
IsValid(question) == question.text # <<>>

\* An end of the try block that appends every question, valid or not.
RunDoneKeepingAll(question, table) ==
    /\ stats' = IF table = "table" THEN [stats EXCEPT !.tables_found = @ + 1] ELSE stats
    /\ questions' = Append(questions, question)
    /\ fate' = Append(fate, IF IsValid(question) THEN "emitted" ELSE "dropped")

\* The end of the try block of one run: the question is appended if valid.
RunDone(question, table) ==
    /\ stats' = IF table = "table" THEN [stats EXCEPT !.tables_found = @ + 1] ELSE stats
    /\ questions' = IF IsValid(question) THEN Append(questions, question) ELSE questions
    /\ fate' = Append(fate, IF IsValid(question) THEN "emitted" ELSE "dropped")

\* A handler of one run that forgets the questions found so far.
RunFailsLosingAll(index, msg) ==
    /\ stats' = [stats EXCEPT !.errors =
                    Append(@, <<"Error processing question", index + 1, msg>>)]
    /\ questions' = <<>>
    /\ fate' = Append(fate, "raised")

\* The except branch of one run: the error is appended to stats.errors.
RunFails(index, msg) ==
    /\ stats' = [stats EXCEPT !.errors =
                    Append(@, <<"Error processing question", index + 1, msg>>)]
    /\ questions' = questions
    /\ fate' = Append(fate, "raised")

\* One turn of the loop of _extract_text_based over the runs.
ProcessQuestion ==
    /\ pc = "loop"
    /\ i < Len(questions_text)
    /\ \E table \in TableOutcomes(questions_text[i + 1]) :
          IF table = "raise"
          THEN RunFails(i, ReadError)
          ELSE RunDone(BuildQuestion(questions_text[i + 1], i, table), table)
    /\ i' = i + 1
    /\ UNCHANGED <<doc, pc, all_text, math_expressions, questions_text, result, returned,
                   call, service>>

\* process: extract_from_document has returned; the result is filled and
\* returned as a dictionary.
Finish ==
    /\ pc = "loop"
    /\ i = Len(questions_text)
    /\ pc' = "done"
    /\ result' = [result EXCEPT !.questions = questions, !.stats = stats]
    /\ returned' = ResultToDict(result')
    /\ UNCHANGED <<doc, all_text, math_expressions, questions_text, i, questions,
                   stats, fate, call, service>>

Next == Open \/ OpenFails \/ Extract \/ ReadFails \/ ProcessQuestion \/ Finish

Spec == Init /\ [][Next]_vars

(* ------------------------------------------------------------------ *)
(* PDFTextCleaner.extract_options called on its own                    *)
(* ------------------------------------------------------------------ *)

\* The letters an option can carry ([A-F]), in order, and how many there are.
OptionLetters == <<"A", "B", "C", "D", "E", "F">>

MaxOptions == 6

\* The text of the option of each letter.
OptionBody == [A |-> "3", B |-> "4", C |-> "5", D |-> "6", E |-> "7", F |-> "8"]

\* The texts with n options labelled A, B, ... in order: before the first
\* option nothing or a question; each option is the letter, "." or ")", a
\* blank and the text; sep between two options.
OptionTexts ==
    LET Leads == {<<>>, <<"What", "?", NL>>, <<"What", "?", " ">>}
        RECURSIVE OptionLines(_, _, _, _)
        OptionLines(n, k, sep, delim) ==
            IF k > n THEN <<>>
            ELSE <<OptionLetters[k], delim, " ", OptionBody[OptionLetters[k]]>>
                 \o (IF k < n THEN <<sep>> ELSE <<>>)
                 \o OptionLines(n, k + 1, sep, delim)
    IN  {[n |-> n, text |-> lead \o OptionLines(n, 1, sep, delim)] :
            n \in 2..MaxOptions, sep \in {NL, " "}, delim \in {".", ")"}, lead \in Leads}

InitOptions ==
    /\ arg \in OptionTexts
    /\ ret = <<>>
    /\ doc = <<>>
    /\ pc = "start"
    /\ all_text = <<>>
    /\ math_expressions = <<>>
    /\ questions_text = <<>>
    /\ i = 0
    /\ questions = <<>>
    /\ stats = NewStats
    /\ result = NewResult
    /\ returned = None
    /\ fate = <<>>
    /\ NoService

\* options = PDFTextCleaner.extract_options(text)
ExtractOptions ==
    /\ ret = <<>>
    /\ ret' = <<extract_options(arg.text)>>
    /\ UNCHANGED <<pipeline, arg, service>>

SpecOptions == InitOptions /\ [][ExtractOptions]_vars

(* ------------------------------------------------------------------ *)
(* EnhancedTableExtractor._extract_table_manually                      *)
(* ------------------------------------------------------------------ *)

\* sorted(P) for a set of numbers.
Ascending(P) ==
    [k \in 1..Cardinality(P) |-> CHOOSE p \in P : Cardinality({q \in P : q < p}) = k - 1]

\* sep.join(parts)
RECURSIVE JoinWith(_, _)
JoinWith(parts, sep) ==
    IF parts = <<>> THEN <<>>
    ELSE IF Len(parts) = 1 THEN parts[1]
    ELSE parts[1] \o <<sep>> \o JoinWith(Tail(parts), sep)

\* row_cells of one line: the cells at the sorted x positions of its spans.
RowCells(line) ==
    LET \* round(x / 10) * 10 for a natural x; round() takes a half to the
        \* even side.
        RoundTens(x) ==
            10 * (IF x % 10 < 5 THEN x \div 10
                  ELSE IF x % 10 > 5 THEN x \div 10 + 1
                  ELSE IF (x \div 10) % 2 = 0 THEN x \div 10 ELSE x \div 10 + 1)
        \* The spans that have a text: "text" in span and span["text"].strip()
        TextSpans == SelectSeq(line.spans, LAMBDA span : Strip(span.text) # <<>>)
        SpansAt(x_pos) == SelectSeq(TextSpans, LAMBDA span : RoundTens(span.x) = x_pos)
        \* " ".join(spans_by_x[x_pos])
        CellAt(x_pos) ==
            JoinWith([k \in 1..Len(SpansAt(x_pos)) |-> SpansAt(x_pos)[k].text], " ")
        CellsAtEach(x_positions) == [k \in 1..Len(x_positions) |-> CellAt(x_positions[k])]
    IN  CellsAtEach(Ascending({RoundTens(TextSpans[k].x) : k \in 1..Len(TextSpans)}))

\* rows = [rows_by_y[y] for y in sorted(rows_by_y.keys())], where
\* rows_by_y[y_pos] is the row_cells of the last line at y_pos that has cells.
RowsByY(lines) ==
    LET RowAt(y_pos) ==
            RowCells(lines[SetMax({n \in 1..Len(lines) :
                                      lines[n].y = y_pos /\ RowCells(lines[n]) # <<>>})])
        RowsAtEach(sorted_y) == [k \in 1..Len(sorted_y) |-> RowAt(sorted_y[k])]
    IN  RowsAtEach(Ascending({lines[n].y : n \in {m \in 1..Len(lines) :
                                                      RowCells(lines[m]) # <<>>}}))

\* max(set(col_counts), key=col_counts.count): a most common column count.
\* When several counts are equally common, which one max() returns depends
\* on the order in which the set is gone through.
TargetCols(rows) ==
    LET \* How many rows have c cells: col_counts.count(c)
        CountOf(c) == Cardinality({k \in 1..Len(rows) : Len(rows[k]) = c})
    IN  {Len(rows[k]) : k \in {j \in 1..Len(rows) :
                                  \A m \in 1..Len(rows) :
                                      CountOf(Len(rows[m])) <= CountOf(Len(rows[j]))}}

\* A normalization that keeps the first cell only.
CutToOneCell(row, target_cols) == SubSeq(row, 1, 1)

\* "Normalize row to target column count"
NormalizeRow(row, target_cols) ==
    IF Len(row) < target_cols
    THEN row \o [k \in 1..(target_cols - Len(row)) |-> <<>>]
    ELSE SubSeq(row, 1, target_cols)

\* _extract_table_manually from "Generate HTML table" on, for a most common
\* column count target_cols.
TableHtml(rows, target_cols) ==
    LET \* re.match(r'^[\d\.\$]+$', cell)
        IsNumeric(cell) ==
            MatchAt(Cat(<<Bos, Plus(Cls("numc")), Eos>>), cell, 1, NoFlags).ok
        \* The lines of the markup of the header row.
        HeadLines(headers) ==
            IF headers = <<>> THEN <<>>
            ELSE <<<<"<thead>">>, <<"<tr>">>>>
                 \o [k \in 1..Len(headers) |-> <<"<th>">> \o headers[k] \o <<"</th>">>]
                 \o <<<<"</tr>">>, <<"</thead>">>>>
        \* The lines of the markup of one data row.
        CellLines(row) ==
            [k \in 1..Len(row) |->
                <<IF IsNumeric(row[k]) THEN "<td class='numeric'>" ELSE "<td>">>
                \o row[k] \o <<"</td>">>]
        \* The markup once the rows are split into the header row and the data
        \* rows.
        MarkupOf(headers, data_rows) ==
            LET BodyLines[n \in 0..Len(data_rows)] ==
                    IF n = 0 THEN <<>>
                    ELSE BodyLines[n - 1] \o <<<<"<tr>">>>>
                         \o CellLines(NormalizeRow(data_rows[n], target_cols))
                         \o <<<<"</tr>">>>>
            IN  JoinWith(<<<<"<table class='quiz-table' border='1'>">>>>
                         \o HeadLines(headers)
                         \o <<<<"<tbody>">>>> \o BodyLines[Len(data_rows)]
                         \o <<<<"</tbody>">>, <<"</table>">>>>,
                         NL)
    IN  IF Len(rows) > 1 /\ Len(rows[1]) <= target_cols
        THEN MarkupOf(rows[1], Tail(rows))
        ELSE MarkupOf(<<>>, rows)

\* The markup read back: the rows are the stretches from a <tr> to the next
\* </tr>, in order, and the cells of a row the texts between a <th> or <td>
\* and the next </th> or </td>, in order.
ReadRows(html) ==
    LET ReadCell(from) ==
            SubSeq(html, from + 1,
                   SetMin({p \in from..Len(html) : html[p] \in {"</th>", "</td>"}}) - 1)
        ReadCells(starts) == [k \in 1..Len(starts) |-> ReadCell(starts[k])]
        ReadRow(from) ==
            ReadCells(Ascending(
                {p \in from..SetMin({q \in from..Len(html) : html[q] = "</tr>"}) :
                    html[p] \in {"<th>", "<td>", "<td class='numeric'>"}}))
        ReadRowsAt(starts) == [k \in 1..Len(starts) |-> ReadRow(starts[k])]
    IN  ReadRowsAt(Ascending({p \in 1..Len(html) : html[p] = "<tr>"}))

(* ------------------------------------------------------------------ *)
(* to_dict, extract_math and _extract_table_manually called on their   *)
(* own                                                                 *)
(* ------------------------------------------------------------------ *)

\* x = 5 + 3
AssignmentText == <<"x", " ", "=", " ", "5", " ", "+", " ", "3">>

\* This is a normal sentence.
SentenceText ==
    <<"This", " ", "is", " ", "a", " ", "normal", " ", "sentence", ".">>

\* The most symbols of a text made of the symbols of an assignment.
MaxMathLen == 3

\* The most rows of a table and the most cells of a row.
MaxRows == 3

MaxCols == 2

\* [["Age","Rate"],["30","0.01"],["40","0.02"]]
ExampleTable ==
    <<<<<<"Age">>, <<"Rate">>>>,
      <<<<"3", "0">>, <<"0", ".", "0", "1">>>>,
      <<<<"4", "0">>, <<"0", ".", "0", "2">>>>>>

\* page.get_text("dict", clip=bbox) of a page that shows the table: row k is
\* the line at height k, and its cell j is the span at 10 * j.
TableText(rows) ==
    [k \in 1..Len(rows) |->
        [y |-> k,
         spans |-> [j \in 1..Len(rows[k]) |-> [x |-> 10 * j, text |-> rows[k][j]]]]]

\* A call of one of the three functions: arg.fn is the function and arg.x
\* what it is called on.
InitCall ==
    LET
        \* The records to_dict is called on: the fields of the dataclass are
        \* independent of each other, so each is drawn on its own.
        Records ==
            {[QuestionData(1, <<"What", "?">>, correct_answer, <<>>, <<>>, options)
                 EXCEPT !.has_table = has_table, !.table_html = table_html,
                        !.has_math = has_math, !.math_expressions = expressions,
                        !.validation_issues = validation_issues] :
                correct_answer \in {None, "A"},
                options \in {EmptyDict, [A |-> <<"x">>, B |-> <<"y">>]},
                has_table \in BOOLEAN, table_html \in {"", "<table>"},
                has_math \in BOOLEAN, expressions \in {<<>>, <<<<"x", "=", "1">>>>},
                validation_issues \in {<<>>, <<"not in options">>}}
        \* The texts extract_math is called on.
        MathTexts ==
            {AssignmentText, SentenceText} \cup SeqsUpTo({"x", "=", "5", "+", " "}, MaxMathLen)
        \* The tables: rows of one cell or more, of the same length or not, made of
        \* the cells Age and 30.
        Tables ==
            SeqsUpTo(SeqsUpTo({<<"Age">>, <<"3", "0">>}, MaxCols) \ {<<>>}, MaxRows)
                \cup {ExampleTable}
    IN
    /\ \/ \E q \in Records : arg = [fn |-> "to_dict", x |-> q]
       \/ \E text \in MathTexts : arg = [fn |-> "extract_math", x |-> text]
       \/ \E rows \in Tables : arg = [fn |-> "_extract_table_manually", x |-> rows]
    /\ ret = <<>>
    /\ doc = <<>>
    /\ pc = "start"
    /\ all_text = <<>>
    /\ math_expressions = <<>>
    /\ questions_text = <<>>
    /\ i = 0
    /\ questions = <<>>
    /\ stats = NewStats
    /\ result = NewResult
    /\ returned = None
    /\ fate = <<>>
    /\ NoService

\* question.to_dict()
ToDict ==
    /\ arg.fn = "to_dict"
    /\ ret = <<>>
    /\ ret' = <<QuestionToDict(arg.x)>>
    /\ UNCHANGED <<pipeline, arg, service>>

\* expressions = MathExtractor.extract_math(text)
ExtractMath ==
    /\ arg.fn = "extract_math"
    /\ ret = <<>>
    /\ ret' = <<extract_math(arg.x)>>
    /\ UNCHANGED <<pipeline, arg, service>>

\* html = self._extract_table_manually(doc, page_idx, bbox)
ExtractTable ==
    /\ arg.fn = "_extract_table_manually"
    /\ ret = <<>>
    /\ \E rows \in {RowsByY(TableText(arg.x))} :
          IF rows = <<>> THEN ret' = <<<<>>>>
          ELSE \E target_cols \in TargetCols(rows) : ret' = <<TableHtml(rows, target_cols)>>
    /\ UNCHANGED <<pipeline, arg, service>>

NextCall == ToDict \/ ExtractMath \/ ExtractTable

SpecCall == InitCall /\ [][NextCall]_vars

(* ------------------------------------------------------------------ *)
(* PDFProcessor objects of concurrent jobs                             *)
(* ------------------------------------------------------------------ *)

\* A ProcessingStats() that gives every caller the same object.
AllocShared(h) == 1

\* ProcessingStats(): the identity of the new object; no object is freed
\* while a job runs.
Alloc(h) == Len(h) + 1

\* The heap h with value v at identity id (a new identity extends the heap).
Store(h, id, v) == [k \in 1..SetMax({Len(h), id}) |-> IF k = id THEN v ELSE h[k]]

\* A coverage test that every page passes.
LowCoverageAlways(page_text) == TRUE

\* len(text.strip()) < 50
LowCoverage(page_text) == CharLen(Strip(page_text)) < 50

\* A page_iterator that takes the requested range as it is.
PageIteratorAsRequested(n, page_range) ==
    IF page_range = <<>> THEN [k \in 1..n |-> k - 1]
    ELSE [k \in 1..SetMax({0, page_range[2] + 1 - page_range[1]}) |-> page_range[1] + k - 1]

\* page_iterator of extract_from_document for a document of n pages, as the
\* sequence of its page indices; page_range is <<>> (None) or <<start, end>>.
PageIterator(n, page_range) ==
    IF page_range = <<>> THEN [k \in 1..n |-> k - 1]
    ELSE LET start_page == SetMax({0, page_range[1]})
             end_page == SetMin({n - 1, page_range[2]})
         IN  [k \in 1..SetMax({0, end_page + 1 - start_page}) |-> start_page + k - 1]

\* PDFProcessor(file_path, page_range) on heap h: the extractor and the result
\* get a ProcessingStats each.  input is the file and what its reading meets:
\* doc the pages, opens whether fitz.open succeeds, bad_page the index of a
\* page whose get_text raises (-1: none), ocr_available OCR_AVAILABLE, ocr
\* what OCRProcessor.process_page gives for a page (<<>> when OCR fails),
\* table what the table check of a run comes to.
NewProcessor(h, input) ==
    LET extractor_stats == Alloc(h)
        h1 == Store(h, extractor_stats, NewStats)
        result_stats == Alloc(h1)
    IN  [h |-> Store(h1, result_stats, NewStats),
         p |-> [input |-> input, pc |-> "new",
                extractor |-> [stats |-> extractor_stats],
                result |-> [questions |-> <<>>, total_pages |-> 0, error |-> None,
                            stats |-> result_stats],
                page_iterator |-> <<>>, needs_ocr |-> FALSE, all_text |-> <<>>,
                math_expressions |-> <<>>, questions_text |-> <<>>, i |-> 0,
                questions |-> <<>>, reads |-> <<>>, ocr_pages |-> <<>>,
                returned |-> None]]

\* One step of process() of processor p on heap h: the heap and the
\* processor after it.
ProcessorStep(h, p) ==
    LET pages == p.input.doc
        self_stats == p.extractor.stats
        TextOf(page_num) == pages[page_num + 1]
        \* process: the except branch.
        Raise(q, msg) ==
            [h |-> h, p |-> [q EXCEPT !.pc = "done", !.result.error = msg]]
        \* self.doc = fitz.open(...); self.result.total_pages = len(self.doc)
        OpenStep ==
            IF ~p.input.opens THEN Raise(p, "cannot open document")
            ELSE [h |-> h,
                  p |-> [p EXCEPT !.pc = "opened", !.result.total_pages = Len(pages)]]
        \* extract_from_document up to self.stats.processed_pages = ...
        ResetWith(id, page_iterator) ==
            [h |-> Store(h, id, [NewStats EXCEPT !.total_pages = Len(pages),
                                                 !.processed_pages = Len(page_iterator)]),
             p |-> [p EXCEPT !.pc = "ranged", !.extractor.stats = id,
                             !.page_iterator = page_iterator]]
        \* _check_if_ocr_needed over the first pages, where stop are the places
        \* of the pages whose read raises or whose text is short.
        CheckOcrOver(first, stop) ==
            IF ~p.input.ocr_available \/ stop = {}
            THEN [h |-> h, p |-> [p EXCEPT !.pc = "checked", !.needs_ocr = FALSE]]
            ELSE IF first[SetMin(stop)] = p.input.bad_page
            THEN Raise([p EXCEPT !.reads = SubSeq(first, 1, SetMin(stop) - 1)], ReadError)
            ELSE [h |-> Store(h, self_stats, [h[self_stats] EXCEPT !.ocr_used = TRUE]),
                  p |-> [p EXCEPT !.pc = "checked", !.needs_ocr = TRUE]]
        \* if use_ocr and len(page_text.strip()) < 50
        ByOcr(page_num) == p.needs_ocr /\ LowCoverage(TextOf(page_num))
        \* _extract_text_based: the loop over the pages iter, where bad are the
        \* places of the pages whose read raises.
        ReadPages(iter, bad) ==
            LET text[k \in 0..Len(iter)] ==
                    IF k = 0 THEN <<>>
                    ELSE text[k - 1]
                         \o (IF ByOcr(iter[k]) THEN p.input.ocr ELSE TextOf(iter[k]))
                         \o <<NL>>
            IN  IF bad # {}
                THEN Raise([p EXCEPT !.reads = SubSeq(iter, 1, SetMin(bad) - 1),
                                    !.ocr_pages = SelectSeq(SubSeq(iter, 1, SetMin(bad) - 1),
                                                            ByOcr)],
                           ReadError)
                ELSE [h |-> h,
                      p |-> [p EXCEPT !.pc = "read", !.all_text = text[Len(iter)],
                                      !.reads = iter, !.ocr_pages = SelectSeq(iter, ByOcr)]]
        \* _extract_text_based from the math expressions to the loop.
        SplitInto(n, math, split) ==
            [h |-> Store(n.h, self_stats,
                         [n.h[self_stats] EXCEPT !.math_found = @ + Len(math),
                                                 !.warnings = @ \o split.warnings,
                                                 !.questions_found = Len(split.runs)]),
             p |-> [n.p EXCEPT !.pc = "loop", !.math_expressions = math,
                               !.questions_text = split.runs, !.i = 0]]
        Split(n) ==
            IF n.p.pc = "read"
            THEN SplitInto(n, extract_math(n.p.all_text),
                           _split_into_questions(n.p.all_text))
            ELSE n
        \* The table check of run q_text.
        TableOf(q_text) ==
            IF ~_text_might_have_table(q_text) THEN "skip"
            ELSE IF p.input.table = "table"
                    /\ ~\E k \in 1..Len(p.page_iterator) :
                            IsSubstr(q_text, TextOf(p.page_iterator[k]))
            THEN "none"
            ELSE p.input.table
        \* One turn of the loop over the runs: the except branch, or the end of
        \* the try block with the question built.
        RunWith(table, question, question_math) ==
            IF table = "raise"
            THEN [h |-> Store(h, self_stats,
                              [h[self_stats] EXCEPT !.errors =
                                  Append(@, <<"Error processing question", p.i + 1,
                                              ReadError>>)]),
                  p |-> [p EXCEPT !.i = @ + 1]]
            ELSE [h |-> IF table = "table"
                        THEN Store(h, self_stats,
                                   [h[self_stats] EXCEPT !.tables_found = @ + 1])
                        ELSE h,
                  p |-> [p EXCEPT
                            !.i = @ + 1,
                            !.questions =
                                IF question.text = <<>> THEN @
                                ELSE Append(@, [question EXCEPT
                                        !.has_math = question_math # <<>>,
                                        !.math_expressions = question_math,
                                        !.has_table = (table = "table"),
                                        !.table_html =
                                            IF table = "table" THEN "<table>" ELSE @])]]
        Run(q_text) ==
            RunWith(TableOf(q_text),
                    _process_question_text(q_text, _extract_question_id(q_text, p.i)),
                    SelectSeq(p.math_expressions, LAMBDA e : IsSubstr(e, q_text)))
        \* self.result.questions = questions; self.result.stats = self.extractor.stats
        Finished ==
            [h |-> h, p |-> [p EXCEPT !.pc = "done", !.result.questions = p.questions,
                                      !.result.stats = self_stats]]
        \* return self.result.to_dict(), of the try block or of the except branch
        Returned(n) ==
            IF n.p.pc = "done"
            THEN [n EXCEPT !.p.returned =
                     ResultToDict([n.p.result EXCEPT !.stats = n.h[n.p.result.stats]])]
            ELSE n
    IN  Returned(
          CASE p.pc = "new" -> OpenStep
            [] p.pc = "opened" ->
                  ResetWith(Alloc(h), PageIterator(Len(pages), p.input.page_range))
            [] p.pc = "ranged" ->
                  CheckOcrOver(SubSeq(p.page_iterator, 1, SetMin({3, Len(p.page_iterator)})),
                               {k \in 1..SetMin({3, Len(p.page_iterator)}) :
                                   \/ p.page_iterator[k] = p.input.bad_page
                                   \/ LowCoverage(TextOf(p.page_iterator[k]))})
            [] p.pc = "checked" ->
                  Split(ReadPages(p.page_iterator,
                                  {k \in 1..Len(p.page_iterator) :
                                      p.page_iterator[k] = p.input.bad_page}))
            [] p.pc = "loop" /\ p.i < Len(p.questions_text) ->
                  Run(p.questions_text[p.i + 1])
            [] p.pc = "loop" /\ p.i = Len(p.questions_text) -> Finished)

\* What process() returns for input when no other job runs.
Alone(input) ==
    LET RECURSIVE RunToEnd(_)
        RunToEnd(n) ==
            IF n.p.pc = "done" THEN n.p.returned ELSE RunToEnd(ProcessorStep(n.h, n.p))
    IN  RunToEnd(NewProcessor(<<>>, input))

\* The most jobs that run at the same time.
MaxJobs == 2

\* The pages of the documents of the jobs: two short pages, and pages of 49,
\* 50 and 83 characters (70 of them not blank).
\* Q.1 What is it?
\* Question 2 Why table?
\* Q.2 Which of the two values is the larger of them
\* Q.2 Which of the two values is the larger of them?
\* Q.1 What is the expected value of the random variable under the given
\* distribution?
JobPages ==
    LET of49 == <<"Q", ".", "2", " ", "Which", " ", "of", " ", "the", " ", "two", " ",
                  "values", " ", "is", " ", "the", " ", "larger", " ", "of", " ", "them">>
    IN  [q1 |-> <<"Q", ".", "1", " ", "What", " ", "is", " ", "it", "?">>,
         q2 |-> <<"Question", " ", "2", " ", "Why", " ", "table", "?">>,
         of49 |-> of49,
         of50 |-> of49 \o <<"?">>,
         of83 |-> <<"Q", ".", "1", " ", "What", " ", "is", " ", "the", " ", "expected",
                    " ", "value", " ", "of", " ", "the", " ", "random", " ", "variable",
                    " ", "under", " ", "the", " ", "given", " ", "distribution", "?">>]

\* A file that opens and is read without OCR, without a fault and without a
\* table.
PlainInput(pages) ==
    [doc |-> pages, page_range |-> <<>>, opens |-> TRUE, bad_page |-> -1,
     ocr_available |-> FALSE, ocr |-> <<>>, table |-> "none"]

\* The inputs of a job that runs alone: every page range over the documents
\* of up to MaxPages pages; documents of pages around the coverage threshold
\* with OCR that gives a text or fails; files that do not open, pages that are
\* not read, table checks that raise or give a table.
JobInputs ==
    LET scanned == SeqsUpTo({JobPages.of49, JobPages.of50, JobPages.of83, <<"Q", ".", "3">>}, MaxPages)
                       \cup {<<JobPages.of83, JobPages.of83, JobPages.of83, JobPages.of49>>}
    IN  {[PlainInput([k \in 1..n |-> IF k % 2 = 1 THEN JobPages.q1 ELSE JobPages.q2])
             EXCEPT !.page_range = page_range] :
            n \in 0..MaxPages,
            page_range \in {<<>>} \cup ((-1..MaxPages) \X (-1..MaxPages))}
        \cup {[PlainInput(pages) EXCEPT !.ocr_available = TRUE, !.ocr = ocr] :
                pages \in scanned, ocr \in {<<>>, JobPages.q1}}
        \cup {[PlainInput(<<JobPages.q1, JobPages.of49>>) EXCEPT !.bad_page = bad_page,
                                                     !.ocr_available = ocr_available] :
                bad_page \in 0..1, ocr_available \in BOOLEAN}
        \cup {[PlainInput(<<JobPages.q1, JobPages.q2>>) EXCEPT !.table = table] :
                table \in {"raise", "table"}}
        \cup {[PlainInput(<<JobPages.q1>>) EXCEPT !.opens = FALSE]}

\* The jobs there are: one job with any of the inputs, or MaxJobs jobs, by
\* turns on a document with a run whose table check raises and on a scanned
\* document whose OCR fails; each has its input and no processor yet.
InitJobs ==
    /\ \/ \E input \in JobInputs : processor = <<[input |-> input, pc |-> "queued"]>>
       \/ processor =
             [j \in 1..MaxJobs |->
                 [input |-> IF j % 2 = 1
                            THEN [PlainInput(<<JobPages.q1, JobPages.q2>>)
                                     EXCEPT !.table = "raise"]
                            ELSE [PlainInput(<<JobPages.of49, JobPages.q1>>)
                                     EXCEPT !.ocr_available = TRUE],
                  pc |-> "queued"]]
    /\ heap = <<>>
    /\ request = <<>>
    /\ processing_status = <<>>
    /\ now = 0
    /\ arg = <<>>
    /\ ret = <<>>
    /\ doc = <<>>
    /\ pc = "start"
    /\ all_text = <<>>
    /\ math_expressions = <<>>
    /\ questions_text = <<>>
    /\ i = 0
    /\ questions = <<>>
    /\ stats = NewStats
    /\ result = NewResult
    /\ returned = None
    /\ fate = <<>>

\* processor = PDFProcessor(file_path, page_range) of job j.
Construct(j) ==
    /\ processor[j].pc = "queued"
    /\ \E n \in {NewProcessor(heap, processor[j].input)} :
          /\ heap' = n.h
          /\ processor' = [processor EXCEPT ![j] = n.p]
    /\ UNCHANGED <<pipeline, call, request, processing_status, now>>

\* The next step of process() of job j.
Step(j) ==
    /\ processor[j].pc \notin {"queued", "done"}
    /\ \E n \in {ProcessorStep(heap, processor[j])} :
          /\ heap' = n.h
          /\ processor' = [processor EXCEPT ![j] = n.p]
    /\ UNCHANGED <<pipeline, call, request, processing_status, now>>

NextJobs ==
    \/ \E j \in DOMAIN processor : Construct(j)
    \/ \E j \in DOMAIN processor : Step(j)

SpecJobs == InitJobs /\ [][NextJobs]_vars

(* ------------------------------------------------------------------ *)
(* The /process endpoint, its tasks and the status table               *)
(* ------------------------------------------------------------------ *)

\* The seconds wait_for waits and the seconds an entry of the status table
\* is kept (the constants of the program).
DEFAULT_TIMEOUT == 55

CACHE_EXPIRY == 3600

\* The most requests the service receives and the most steps of the clock.
MaxRequests == 2

MaxTicks == 2

\* An update that removes nothing.
UpdateWithoutSweep(table, request_id, status, time) ==
    [k \in DOMAIN table \cup {request_id} |->
        IF k = request_id THEN [status |-> status, timestamp |-> time] ELSE table[k]]

\* update_processing_status at time.time() = time: the table after the entry
\* is written and the old entries are removed.
update_processing_status(table, request_id, status, time) ==
    LET written == [k \in DOMAIN table \cup {request_id} |->
                       IF k = request_id THEN [status |-> status, timestamp |-> time]
                       ELSE table[k]]
        keys_to_remove == {k \in DOMAIN written : time - written[k].timestamp > CACHE_EXPIRY}
    IN  [k \in DOMAIN written \ keys_to_remove |-> written[k]]

\* get_processing_status: the entry, or 404 when there is none.
get_processing_status(request_id) ==
    IF request_id \in DOMAIN processing_status THEN processing_status[request_id]
    ELSE [status_code |-> 404]

\* A request as it arrives: kind says what is uploaded and how ("not_pdf": a
\* file whose name does not end in .pdf; "oversize": a PDF of more than
\* MAX_PDF_SIZE_MB; "async" and "sync": a PDF with async_process set or not).
\* handler is where handle_pdf is, task where process_pdf_with_storage is,
\* thread the call of processor.process in the executor, result what the
\* task has got, tmp the temporary file, file what is written to it,
\* response the status code sent (0: none yet), waited the seconds wait_for
\* has waited, up to DEFAULT_TIMEOUT.
NewRequest(kind) ==
    [kind |-> kind, handler |-> "start", task |-> "none", thread |-> "none",
     result |-> <<>>, tmp |-> "none", file |-> <<>>, response |-> 0, waited |-> 0]

\* The PDFs uploaded, a file that opens and one that fitz cannot open: each
\* is given by what processor.process returns for it, which depends on
\* nothing but the file.
Uploads ==
    {Alone([PlainInput(<<JobPages.q1>>) EXCEPT !.opens = opens]) : opens \in BOOLEAN}

\* No request yet.
InitService ==
    /\ request = <<>>
    /\ processing_status = <<>>
    /\ now = 0
    /\ heap = <<>>
    /\ processor = <<>>
    /\ arg = <<>>
    /\ ret = <<>>
    /\ doc = <<>>
    /\ pc = "start"
    /\ all_text = <<>>
    /\ math_expressions = <<>>
    /\ questions_text = <<>>
    /\ i = 0
    /\ questions = <<>>
    /\ stats = NewStats
    /\ result = NewResult
    /\ returned = None
    /\ fate = <<>>

\* handle_pdf: the file name does not end in .pdf.
RejectNotPdf ==
    /\ Len(request) < MaxRequests
    /\ \E q \in {NewRequest("not_pdf")} :
          request' = Append(request, [q EXCEPT !.handler = "done", !.response = 400])
    /\ UNCHANGED <<pipeline, call, heap, processor, processing_status, now>>

\* handle_pdf: the temporary file is made and the upload is too large.
RejectOversize ==
    /\ Len(request) < MaxRequests
    /\ \E q \in {NewRequest("oversize")} :
          request' = Append(request, [q EXCEPT !.handler = "done", !.tmp = "exists",
                                                  !.response = 400])
    /\ UNCHANGED <<pipeline, call, heap, processor, processing_status, now>>

\* handle_pdf with async_process: the upload is written to the temporary
\* file, the status is "queued", the task is added to the background tasks
\* and the response is sent.
Queue(file) ==
    /\ Len(request) < MaxRequests
    /\ \E q \in {NewRequest("async")} :
          request' = Append(request, [q EXCEPT !.handler = "done", !.tmp = "exists",
                                                  !.file = <<file>>,
                                                  !.task = "scheduled", !.response = 200])
    /\ processing_status'
          = update_processing_status(processing_status, Len(request) + 1, "queued", now)
    /\ UNCHANGED <<pipeline, call, heap, processor, now>>

\* handle_pdf without async_process: the upload is written to the temporary
\* file; asyncio.wait_for(process_pdf_with_storage(...), timeout=DEFAULT_TIMEOUT)
WaitFor(file) ==
    /\ Len(request) < MaxRequests
    /\ \E q \in {NewRequest("sync")} :
          request' = Append(request, [q EXCEPT !.handler = "waiting", !.tmp = "exists",
                                                  !.file = <<file>>,
                                                  !.task = "scheduled"])
    /\ UNCHANGED <<pipeline, call, heap, processor, processing_status, now>>

\* process_pdf_with_storage up to the await: the status is "processing" and
\* processor.process is given to the executor, which runs it or raises.
StartTask(r) ==
    /\ request[r].task = "scheduled"
    /\ processing_status' = update_processing_status(processing_status, r, "processing", now)
    /\ \E thread \in {"running", "raised"} :
          request' = [request EXCEPT ![r].task = "awaiting", ![r].thread = thread]
    /\ UNCHANGED <<pipeline, call, heap, processor, now>>

\* processor.process returns in its thread.
ThreadReturns(r) ==
    /\ request[r].thread = "running"
    /\ request' = [request EXCEPT ![r].thread = "done", ![r].result = request[r].file]
    /\ UNCHANGED <<pipeline, call, heap, processor, processing_status, now>>

\* A task that ends with the status "processing".
EndSilently(table, request_id, status, time) ==
    update_processing_status(table, request_id, "processing", time)

\* The last update of the status by a task: update_processing_status of
\* "completed" or of "error".
LastUpdate(table, request_id, status, time) ==
    update_processing_status(table, request_id, status, time)

\* process_pdf_with_storage after the await: the status is "completed"; the
\* finally block removes the temporary file and the task ends.
Complete(r) ==
    /\ request[r].task = "awaiting"
    /\ request[r].thread = "done"
    /\ processing_status' = LastUpdate(processing_status, r, "completed", now)
    /\ request' = [request EXCEPT ![r].task = "ended", ![r].tmp = "deleted"]
    /\ UNCHANGED <<pipeline, call, heap, processor, now>>

\* process_pdf_with_storage: except Exception, the finally block and the end
\* of the task.
TaskFails(r) ==
    /\ request[r].task = "awaiting"
    /\ request[r].thread = "raised"
    /\ processing_status' = LastUpdate(processing_status, r, "error", now)
    /\ request' = [request EXCEPT
                      ![r].task = "ended", ![r].tmp = "deleted",
                      ![r].result = <<[error |-> "executor", questions |-> <<>>,
                                       total_pages |-> 0]>>]
    /\ UNCHANGED <<pipeline, call, heap, processor, now>>

\* handle_pdf: wait_for returns the result of the task.
Respond(r) ==
    /\ request[r].handler = "waiting"
    /\ request[r].task = "ended"
    /\ \E got \in {request[r].result[1]} :
          request' = [request EXCEPT
                         ![r].handler = "done",
                         ![r].response = IF "error" \in DOMAIN got /\ got.questions = <<>>
                                         THEN 500 ELSE 200]
    /\ UNCHANGED <<pipeline, call, heap, processor, processing_status, now>>

\* A wait_for that gives up the task without cancelling it.
Abandon(q) == [q EXCEPT !.handler = "timed_out"]

\* wait_for when the timeout is over: the task is cancelled and wait_for
\* waits until it has ended.
Cancel(q) == [q EXCEPT !.handler = "cancelling", !.task = "cancelled"]

\* The timeout of wait_for is over while the task awaits the executor.
TimeoutFires(r) ==
    /\ request[r].handler = "waiting"
    /\ request[r].task = "awaiting"
    /\ request[r].waited >= DEFAULT_TIMEOUT
    /\ request' = [request EXCEPT ![r] = Cancel(request[r])]
    /\ UNCHANGED <<pipeline, call, heap, processor, processing_status, now>>

\* The cancelled task: CancelledError is raised at the await, the with block
\* is left once the thread has ended (executor.shutdown(wait=True)), no
\* except branch takes the error, the finally block removes the temporary
\* file and the task ends.
CancelUnwinds(r) ==
    /\ request[r].task = "cancelled"
    /\ request[r].thread # "running"
    /\ request' = [request EXCEPT ![r].task = "ended", ![r].tmp = "deleted"]
    /\ UNCHANGED <<pipeline, call, heap, processor, processing_status, now>>

\* wait_for: the cancelled task has ended; TimeoutError is raised.
CancelDone(r) ==
    /\ request[r].handler = "cancelling"
    /\ request[r].task = "ended"
    /\ request' = [request EXCEPT ![r].handler = "timed_out"]
    /\ UNCHANGED <<pipeline, call, heap, processor, processing_status, now>>

\* handle_pdf: except asyncio.TimeoutError.
RespondTimeout(r) ==
    /\ request[r].handler = "timed_out"
    /\ processing_status' = update_processing_status(processing_status, r, "timeout", now)
    /\ request' = [request EXCEPT ![r].handler = "done", ![r].response = 408]
    /\ UNCHANGED <<pipeline, call, heap, processor, now>>

\* Time passes while there are requests: the seconds of the timeout or
\* those of the expiry, at most MaxTicks times.
Tick ==
    /\ request # <<>>
    /\ \E d \in {DEFAULT_TIMEOUT, CACHE_EXPIRY} :
          /\ (now + d) \div CACHE_EXPIRY + ((now + d) % CACHE_EXPIRY) \div DEFAULT_TIMEOUT
                <= MaxTicks
          /\ now' = now + d
    /\ request' = [r \in DOMAIN request |->
                      IF request[r].handler = "waiting"
                      THEN [request[r] EXCEPT !.waited = DEFAULT_TIMEOUT]
                      ELSE request[r]]
    /\ UNCHANGED <<pipeline, call, heap, processor, processing_status>>

\* A step of the task of request r or of its thread.
TaskStep(r) ==
    \/ StartTask(r)
    \/ ThreadReturns(r)
    \/ Complete(r)
    \/ TaskFails(r)
    \/ CancelUnwinds(r)

NextService ==
    \/ RejectNotPdf
    \/ RejectOversize
    \/ \E file \in Uploads : Queue(file) \/ WaitFor(file)
    \/ \E r \in DOMAIN request : TaskStep(r)
    \/ \E r \in DOMAIN request : Respond(r)
    \/ \E r \in DOMAIN request : TimeoutFires(r)
    \/ \E r \in DOMAIN request : CancelDone(r)
    \/ \E r \in DOMAIN request : RespondTimeout(r)
    \/ Tick

SpecService == InitService /\ [][NextService]_vars

\* The event loop runs every task that can take a step, and a thread of the
\* executor runs to its end.
FairSpecService ==
    SpecService /\ \A r \in 1..MaxRequests : WF_vars(r \in DOMAIN request /\ TaskStep(r))

(* ------------------------------------------------------------------ *)
(* Properties of the pipeline                                          *)
(* ------------------------------------------------------------------ *)

EmittedTextExceedsMinimum ==
    \A k \in 1..Len(questions) : CharLen(questions[k].text) > MIN_QUESTION_LENGTH

\* C3: of a text with n options labelled A, B, ... in order, extract_options
\* gives a map with exactly the first n letters as keys, each with the text of
\* its own option.
EveryOptionExtracted ==
    ret # <<>> =>
        /\ DOMAIN ret[1] = {OptionLetters[k] : k \in 1..arg.n}
        /\ \A k \in 1..arg.n :
              OptionLetters[k] \in DOMAIN ret[1]
                  => ret[1][OptionLetters[k]] = <<OptionBody[OptionLetters[k]]>>

\* C4: an emitted record with correct answer C that has no option C carries
\* the validation issue "not in options".
AnswerOutsideOptionsIsFlagged ==
    \A k \in 1..Len(questions) :
        (questions[k].correct_answer = "C" /\ "C" \notin DOMAIN questions[k].options)
            => \E v \in 1..Len(questions[k].validation_issues) :
                  questions[k].validation_issues[v] = "not in options"

\* C6: the document of the end-to-end example gives exactly two records, with
\* ids 1 and 2 in this order; the first has the options A: 3, B: 4, C: 5,
\* D: 6 and the correct answer B.
EndToEndExample ==
    (doc = <<EndToEndText>> /\ pc = "done" /\ result.error = None) =>
        /\ returned.total_questions = 2
        /\ Len(returned.questions) = 2
        /\ returned.questions[1].id = 1
        /\ returned.questions[2].id = 2
        /\ returned.questions[1].options =
               [A |-> <<"3">>, B |-> <<"4">>, C |-> <<"5">>, D |-> <<"6">>]
        /\ returned.questions[1].correct = "B"

\* The document of the end-to-end example has been processed to the end.
EndToEndProcessed ==
    /\ doc = <<EndToEndText>>
    /\ pc = "done"
    /\ result.error = None
    /\ Len(returned.questions) = 2

\* C7: a step in which opening or reading the document fails ends the
\* processing: the result carries an error and no question, and so does what
\* is returned; nothing happens after the end.
AcquisitionFailureIsTerminal ==
    [][/\ pc # "done"
       /\ (pc \in {"start", "opened"} /\ pc' = "done") =>
             /\ result'.error # None
             /\ result'.questions = <<>>
             /\ "error" \in DOMAIN returned'
             /\ returned'.error = result'.error
             /\ returned'.questions = <<>>
             /\ returned'.total_questions = 0]_vars

\* Reading a page of an opened document has failed.
ReadHasFailed ==
    /\ pc = "done"
    /\ result.total_pages > 0
    /\ result.error = ReadError
    /\ returned.questions = <<>>

\* C8: extraction ends without an error of the result whatever the runs hold;
\* every run is gone through; each run that fails has its entry in
\* stats.errors and is the only one left out: the records are those of the
\* other runs with a question text, in order; the statistics come with the
\* result.
RunFailureIsIsolated ==
    /\ pc = "loop" => result.error = None
    /\ (pc = "done" /\ Len(fate) > 0) => result.error = None
    /\ (pc = "done" /\ result.error = None) =>
          LET raised == {k \in 1..Len(fate) : fate[k] = "raised"}
              Record(k) == _process_question_text(
                               questions_text[k],
                               _extract_question_id(questions_text[k], k - 1))
              kept == SelectSeq([k \in 1..Len(questions_text) |-> k],
                                LAMBDA k : k \notin raised /\ Record(k).text # <<>>)
          IN  /\ Len(fate) = Len(questions_text)
              /\ Len(stats.errors) = Cardinality(raised)
              /\ \A k \in raised : \E e \in 1..Len(stats.errors) : stats.errors[e][2] = k
              /\ Len(result.questions) = Len(kept)
              /\ \A j \in 1..Len(kept) :
                    /\ result.questions[j].id = Record(kept[j]).id
                    /\ result.questions[j].text = Record(kept[j]).text
                    /\ result.questions[j].options = Record(kept[j]).options
              /\ Len(returned.questions) = Len(kept)
              /\ result.stats = stats
              /\ returned.stats = stats

\* A run has failed and a later run of the same document has been emitted.
LaterRunEmitted ==
    /\ pc = "done"
    /\ stats.errors # <<>>
    /\ \E j, k \in 1..Len(fate) : j < k /\ fate[j] = "raised" /\ fate[k] = "emitted"
    /\ Len(returned.questions) >= 1

\* C9: when the option-based splitting is used, the text has no question
\* marker, and the run of each "A." option begins with the line before it.
OptionRunKeepsItsLine ==
    (pc = "loop" /\ i = 0 /\ stats.warnings = <<"Used option-based question splitting">>) =>
        LET option_matches == FindIter(option_pattern, all_text, NoFlags)
            LineStart(k) ==
                IF AfterLastNewline(all_text, option_matches[k].s) = 0 THEN 1
                ELSE AfterLastNewline(all_text, option_matches[k].s)
            Line(k) == Strip(Slice(all_text, LineStart(k), option_matches[k].s))
        IN  /\ FindIter(question_pattern, all_text, NoFlags) = <<>>
            /\ FindIter(alternate_pattern, all_text, NoFlags) = <<>>
            /\ Len(questions_text) = Len(option_matches)
            /\ \A k \in 1..Len(option_matches) :
                  /\ Len(Line(k)) <= Len(questions_text[k])
                  /\ SubSeq(questions_text[k], 1, Len(Line(k))) = Line(k)

\* C10: a text with no question marker and no option run beginning at A is
\* one run, the whole text; one warning is recorded and no error.
WholeTextIsOneRun ==
    (/\ pc = "loop"
     /\ i = 0
     /\ FindIter(question_pattern, all_text, NoFlags) = <<>>
     /\ FindIter(alternate_pattern, all_text, NoFlags) = <<>>
     /\ FindIter(option_pattern, all_text, NoFlags) = <<>>) =>
        /\ questions_text = <<all_text>>
        /\ stats.warnings = <<"No clear question boundaries found">>
        /\ stats.errors = <<>>

\* A text with no boundary of any kind has been segmented.
NoBoundaryFound ==
    /\ pc = "loop"
    /\ i = 0
    /\ Len(all_text) > 1
    /\ FindIter(question_pattern, all_text, NoFlags) = <<>>
    /\ FindIter(alternate_pattern, all_text, NoFlags) = <<>>
    /\ FindIter(option_pattern, all_text, NoFlags) = <<>>
    /\ questions_text = <<all_text>>

\* C11: the id of the record of a run is the number of the marker the run
\* begins with ("Question N", "Q.N" or a numbered item "N." / "N)"), and the
\* 1-based position of the run when it begins with no marker.
RunIdIsItsMarkerNumber ==
    (pc = "loop" /\ i > 0 /\ fate[i] = "emitted") =>
        LET run      == questions_text[i]
            standard == MatchAt(question_pattern, run, 1, NoFlags)
            numbered == MatchAt(alternate_pattern, run, 1, NoFlags)
            leading  == MatchAt(pattern3, run, 1, NoFlags)
        IN  questions[Len(questions)].id =
                IF standard.ok
                THEN ToInt(Group(run, standard, 1) \o Group(run, standard, 2))
                ELSE IF numbered.ok THEN ToInt(Group(run, numbered, 1))
                ELSE IF leading.ok THEN ToInt(Group(run, leading, 1))
                ELSE i

\* C12: the question text of an emitted record holds none of the option
\* lines of the record (the letter, "." or ")", a blank and the option
\* text), no correct-answer sentence, and neither the explanation nor the
\* notes to remember of the record.
QuestionTextIsOnlyTheQuestion ==
    \A k \in 1..Len(questions) :
        /\ \A letter \in DOMAIN questions[k].options :
              \A delim \in {".", ")"} :
                  ~IsSubstr(<<letter, delim, " ">> \o questions[k].options[letter],
                            questions[k].text)
        /\ ~Search(AnswerPatterns[1], questions[k].text, ICDot).ok
        /\ questions[k].explanation # <<>>
              => ~IsSubstr(questions[k].explanation, questions[k].text)
        /\ questions[k].things_to_remember # <<>>
              => ~IsSubstr(questions[k].things_to_remember, questions[k].text)

\* C13: when a run has a statement "the correct answer is X", the correct
\* answer of its record is X, whatever answer-like phrase comes before it;
\* when it has none, the correct answer is the letter of the first answer
\* pattern that matches, and None when no pattern matches.
DedicatedAnswerStatementWins ==
    (pc = "loop" /\ i > 0 /\ fate[i] = "emitted") =>
        LET run       == questions_text[i]
            statement == Search(Cat(Phrase(<<"The", "correct", "answer", "is">>)
                                    \o <<Star(S), Grp(1, AF)>>), run, IC)
            matching  == {p \in 1..Len(AnswerPatterns) :
                             Search(AnswerPatterns[p], run, ICDot).ok}
            correct_answer == questions[Len(questions)].correct_answer
        IN  IF statement.ok
            THEN correct_answer = Upper(Group(run, statement, 1)[1])
            ELSE IF matching = {} THEN correct_answer = None
            ELSE correct_answer =
                    Upper(Group(run, Search(AnswerPatterns[SetMin(matching)], run, ICDot),
                                1)[1])

\* C14: in every emitted record the option keys are letters of A..F, there
\* are at most 6 options, and no option has an empty text.
OptionsAreLetteredAndNonEmpty ==
    \A k \in 1..Len(questions) :
        /\ DOMAIN questions[k].options \subseteq {"A", "B", "C", "D", "E", "F"}
        /\ Cardinality(DOMAIN questions[k].options) <= 6
        /\ \A letter \in DOMAIN questions[k].options :
              questions[k].options[letter] # <<>>

\* C15: an emitted record with exactly one option and a correct answer that
\* is not a key of its options carries an issue for each of the two checks;
\* a record that passes every check (a question text, no or at least two
\* options, none of them empty, the correct answer and the letters of the
\* option explanations among the option keys) has no issue.
EveryViolatedCheckIsReported ==
    \A k \in 1..Len(questions) :
        LET q       == questions[k]
            few     == Cardinality(DOMAIN q.options) = 1
            outside == q.correct_answer # None /\ q.correct_answer \notin DOMAIN q.options
            passes  == /\ q.text # <<>>
                       /\ ~few
                       /\ ~outside
                       /\ \A letter \in DOMAIN q.options : q.options[letter] # <<>>
                       /\ DOMAIN q.option_explanations \subseteq DOMAIN q.options
        IN  /\ (few /\ outside) => Len(q.validation_issues) >= 2
            /\ passes => q.validation_issues = <<>>

\* C16: the serialized form of a record has the key validation_issues exactly
\* when the record has an issue, the key table_html only when has_table is
\* set and the key math_expressions only when has_math is set; the keys id,
\* question, options, correct, explanation and things_to_remember are always
\* there.
OptionalKeysFollowTheRecord ==
    (arg.fn = "to_dict" /\ ret # <<>>) =>
        /\ "validation_issues" \in DOMAIN ret[1] <=> arg.x.validation_issues # <<>>
        /\ "table_html" \in DOMAIN ret[1] => arg.x.has_table
        /\ "math_expressions" \in DOMAIN ret[1] => arg.x.has_math
        /\ {"id", "question", "options", "correct", "explanation",
            "things_to_remember"} \subseteq DOMAIN ret[1]

\* A record with an issue, and with a table markup and expressions but
\* neither has_table nor has_math set, has been serialized.
RecordWithIssueSerialized ==
    /\ arg.fn = "to_dict"
    /\ ret # <<>>
    /\ arg.x.validation_issues # <<>>
    /\ ~arg.x.has_table /\ arg.x.table_html # ""
    /\ ~arg.x.has_math /\ arg.x.math_expressions # <<>>
    /\ "validation_issues" \in DOMAIN ret[1]

\* C17: the statistics hold a counter of the dropped questions: while the
\* runs are processed and after, one of the counters of the statistics is
\* the number of the runs dropped so far.
DropsAreCounted ==
    pc \in {"loop", "done"} =>
        \E counter \in {"total_pages", "processed_pages", "questions_found",
                         "tables_found", "math_found"} :
            stats[counter] = Cardinality({k \in 1..Len(fate) : fate[k] = "dropped"})

\* C18: extract_math gives at least one expression for the text "x = 5 + 3"
\* and none for the text "This is a normal sentence.".
AssignmentIsMathSentenceIsNot ==
    (arg.fn = "extract_math" /\ ret # <<>>) =>
        /\ arg.x = AssignmentText => Len(ret[1]) >= 1
        /\ arg.x = SentenceText => ret[1] = <<>>

\* C19 as stated: the markup of a table, read back row by row and cell by
\* cell, gives the rows of the table, in order.
TableRoundTrip ==
    (arg.fn = "_extract_table_manually" /\ ret # <<>>) => ReadRows(ret[1]) = arg.x

\* C19: the markup of a table whose rows all have the same number of cells,
\* read back row by row and cell by cell, gives the rows of the table, in
\* order.
RectangularTableRoundTrip ==
    (/\ arg.fn = "_extract_table_manually"
     /\ ret # <<>>
     /\ \A k \in 1..Len(arg.x) : Len(arg.x[k]) = Len(arg.x[1]))
        => ReadRows(ret[1]) = arg.x

\* The markup of the example table has been generated, with a header row and
\* two body rows.
ExampleTableGenerated ==
    /\ arg.fn = "_extract_table_manually"
    /\ arg.x = ExampleTable
    /\ ret # <<>>
    /\ Len(ReadRows(ret[1])) = 3
    /\ \E p \in 1..Len(ret[1]) : ret[1][p] = "<th>"

\* C20: the text is the texts of the pages in ascending page order, each
\* followed by a newline; the runs begin at ascending positions of the text;
\* the runs are processed in this order, the record of a run is appended
\* after the records of the runs before it, and the records are returned in
\* the order they were appended.
ContentInDocumentOrder ==
    /\ [](pc \in {"loop", "done"} /\ result.error = None =>
            LET off[k \in 1..Len(doc)] ==
                    IF k = 1 THEN 1 ELSE off[k - 1] + Len(doc[k - 1]) + 1
                pos[k \in 0..Len(questions_text)] ==
                    IF k = 0 THEN 0
                    ELSE IF pos[k - 1] < 0 THEN -1
                    ELSE IF \A p \in (pos[k - 1] + 1)..(Len(all_text) + 1) :
                               ~OccursAt(questions_text[k], all_text, p)
                    THEN -1
                    ELSE SetMin({p \in (pos[k - 1] + 1)..(Len(all_text) + 1) :
                                    OccursAt(questions_text[k], all_text, p)})
            IN  /\ \A k \in 1..Len(doc) :
                      /\ OccursAt(doc[k] \o <<NL>>, all_text, off[k])
                      /\ k = Len(doc) => Len(all_text) = off[k] + Len(doc[k])
                /\ \A k \in 1..Len(questions_text) : pos[k] > 0)
    /\ [][/\ i' \in {i, i + 1}
          /\ i' = i + 1 =>
                \/ questions' = questions
                \/ /\ questions' = Append(questions, questions'[Len(questions')])
                   /\ questions'[Len(questions')].id =
                          _extract_question_id(questions_text[i + 1], i)
          /\ (pc = "loop" /\ pc' = "done") =>
                /\ Len(returned'.questions) = Len(questions)
                /\ \A k \in 1..Len(questions) :
                      /\ returned'.questions[k].id = questions[k].id
                      /\ returned'.questions[k].question = questions[k].text]_vars

\* A document of two different pages has given two records, one of each page.
TwoPagesTwoRecords ==
    /\ pc = "done"
    /\ Len(doc) = 2
    /\ doc[1] # doc[2]
    /\ Len(questions_text) = 2
    /\ Len(returned.questions) = 2
    /\ returned.questions[1].id # returned.questions[2].id

\* C29: in every serialized record that is returned, has_options is true
\* exactly when the options are not empty, type is "MULTIPLE_CHOICE" when
\* has_options is true and "UNKNOWN" when it is not, and a record with no
\* options has is_skipped true.
SerializedFlagsFollowTheOptions ==
    pc = "done" =>
        \A k \in 1..Len(returned.questions) :
            LET q == returned.questions[k]
            IN  /\ q.has_options <=> DOMAIN q.options # {}
                /\ q.type = (IF q.has_options THEN "MULTIPLE_CHOICE" ELSE "UNKNOWN")
                /\ DOMAIN q.options = {} => q.is_skipped

\* Two records with no options have been returned, both of the type
\* "UNKNOWN" and skipped.
OptionlessRecordsReturned ==
    /\ pc = "done"
    /\ Len(returned.questions) = 2
    /\ \A k \in 1..2 :
          /\ DOMAIN returned.questions[k].options = {}
          /\ ~returned.questions[k].has_options
          /\ returned.questions[k].type = "UNKNOWN"
          /\ returned.questions[k].is_skipped

\* C30: once the runs are known, stats.questions_found is the number of the
\* runs; what is returned has never more records than stats.questions_found,
\* and the two differ by the number of the runs that were dropped or that
\* raised.
RecordsAreTheRunsKept ==
    /\ pc = "loop" => stats.questions_found = Len(questions_text)
    /\ pc = "done" =>
          /\ returned.total_questions = Len(returned.questions)
          /\ returned.total_questions <= returned.stats.questions_found
          /\ result.error = None =>
                /\ returned.stats.questions_found = Len(questions_text)
                /\ returned.stats.questions_found - returned.total_questions
                      = Cardinality({k \in 1..Len(fate) : fate[k] \in {"dropped", "raised"}})

\* A document of two runs has been processed to the end, one run dropped or
\* raised and the other returned.
OneRunOfTwoReturned ==
    /\ pc = "done"
    /\ result.error = None
    /\ returned.stats.questions_found = 2
    /\ returned.total_questions = 1
    /\ \E k \in 1..2 : fate[k] = "dropped"

(* ------------------------------------------------------------------ *)
(* Properties of concurrent jobs                                       *)
(* ------------------------------------------------------------------ *)

\* C21: jobs that run at the same time share no state: each job has a
\* statistics object of its extractor and one of its result that no other job
\* has, the statistics are reset when the extraction starts (all counters at
\* their initial value but the two page counts), and what process() returns
\* for a document is what it returns when the document is processed alone,
\* whatever the order of the steps of the jobs.
JobsAreIndependent ==
    \A j \in DOMAIN processor :
        LET p == processor[j]
        IN  p.pc # "queued" =>
              /\ \A k \in DOMAIN processor \ {j} :
                    processor[k].pc # "queued" =>
                        {p.extractor.stats, p.result.stats}
                            \cap {processor[k].extractor.stats, processor[k].result.stats}
                          = {}
              /\ p.pc = "ranged" =>
                    heap[p.extractor.stats]
                        = [NewStats EXCEPT !.total_pages = Len(p.input.doc),
                                           !.processed_pages = Len(p.page_iterator)]
              /\ p.pc = "done" => p.returned = Alone(p.input)

\* Two jobs have run one within the other (both were constructed before
\* either began its extraction) and each has returned records and statistics
\* of its own.
TwoJobsInterleavedReturned ==
    /\ Len(processor) = 2
    /\ processor[1].pc = "done"
    /\ processor[2].pc = "done"
    /\ processor[1].input # processor[2].input
    /\ processor[1].extractor.stats > 4
    /\ processor[2].extractor.stats > 4
    /\ processor[1].returned.stats.errors # <<>>
    /\ processor[2].returned.stats.ocr_used

\* C22: OCR is run only on pages whose own text has fewer than 50 characters
\* that are not blank; when OCR fails, the page it was run on contributes
\* the empty text, every other page of the range contributes its own text,
\* all pages of the range are read and process() records no error.
OcrOnlyBelowThresholdAndFailureIsEmpty ==
    \A j \in DOMAIN processor :
        LET p == processor[j]
            NotBlank(text) == CharLen(SelectSeq(text, LAMBDA c : ~IsSpace(c)))
            ByOcr(page_num) == \E k \in 1..Len(p.ocr_pages) : p.ocr_pages[k] = page_num
        IN  p.pc # "queued" =>
              /\ \A k \in 1..Len(p.ocr_pages) :
                    NotBlank(p.input.doc[p.ocr_pages[k] + 1]) < 50
              /\ (p.pc \in {"loop", "done"} /\ p.input.opens /\ p.input.bad_page = -1
                      /\ p.input.ocr = <<>>) =>
                    /\ p.all_text
                          = PagesText([k \in 1..Len(p.page_iterator) |->
                                          IF ByOcr(p.page_iterator[k]) THEN <<>>
                                          ELSE p.input.doc[p.page_iterator[k] + 1]])
                    /\ p.reads = p.page_iterator
                    /\ p.result.error = None

\* OCR has failed on one page of a document and the other page has given a
\* question; nothing is reported as an error.
OcrFailedOnOnePageOnly ==
    \E j \in DOMAIN processor :
        /\ processor[j].pc = "done"
        /\ processor[j].input.ocr = <<>>
        /\ Len(processor[j].ocr_pages) = 1
        /\ Len(processor[j].reads) = 2
        /\ processor[j].returned.total_questions = 1
        /\ processor[j].returned.stats.ocr_used
        /\ "error" \notin DOMAIN processor[j].returned

CompletedMeansNoDocumentError ==
    \A r \in DOMAIN request :
        r \in DOMAIN processing_status =>
            /\ processing_status[r].status = "completed" =>
                  /\ request[r].result # <<>>
                  /\ "error" \notin DOMAIN request[r].result[1]
            /\ (request[r].task = "ended" /\ request[r].result # <<>>
                    /\ "error" \in DOMAIN request[r].result[1]
                    /\ request[r].handler \notin {"cancelling", "timed_out"}
                    /\ request[r].response # 408) =>
                  processing_status[r].status = "error"

\* C25: once the request has been answered and its task, if it has one, has
\* ended, the temporary file of the request is no longer there.
TempFilesAreDeleted ==
    \A r \in DOMAIN request :
        (request[r].handler = "done" /\ request[r].task \in {"none", "ended"}) =>
            request[r].tmp # "exists"

\* C26: the recorded status of a job accepted with async_process changes only
\* from "queued" to "processing" and from "processing" to "completed" or
\* "error"; once its task has ended its entry is never written again; and
\* every such job comes to a recorded status "completed" or "error".
AsyncJobStatusMovesForward ==
    /\ [][\A r \in DOMAIN request :
            request[r].kind = "async" =>
              /\ (r \in DOMAIN processing_status /\ r \in DOMAIN processing_status'
                      /\ processing_status'[r].status # processing_status[r].status) =>
                    <<processing_status[r].status, processing_status'[r].status>>
                        \in {<<"queued", "processing">>, <<"processing", "completed">>,
                             <<"processing", "error">>}
              /\ (request[r].task = "ended" /\ r \in DOMAIN processing_status') =>
                    /\ r \in DOMAIN processing_status
                    /\ processing_status'[r] = processing_status[r]
                    /\ processing_status[r].status \in {"completed", "error"}]_vars
    /\ \A r \in 1..MaxRequests :
          (/\ r \in DOMAIN request
           /\ request[r].kind = "async"
           /\ r \in DOMAIN processing_status
           /\ processing_status[r].status = "queued")
              ~> (/\ r \in DOMAIN processing_status
                  /\ processing_status[r].status \in {"completed", "error"})

\* A job accepted with async_process has ended and is recorded as "error".
AsyncJobEndedInError ==
    \E r \in DOMAIN request :
        /\ request[r].kind = "async"
        /\ request[r].task = "ended"
        /\ r \in DOMAIN processing_status
        /\ processing_status[r].status = "error"

\* C27: a request is answered with 408 only when wait_for has waited
\* DEFAULT_TIMEOUT seconds, and with this answer its recorded status becomes
\* "timeout"; once the timeout is over the request gets no other answer; and
\* after the answer the entry of the request is never written again.
TimeoutStatusStands ==
    [][\A r \in DOMAIN request :
          /\ (request[r].response # 408 /\ request'[r].response = 408) =>
                /\ request[r].waited >= DEFAULT_TIMEOUT
                /\ r \in DOMAIN processing_status'
                /\ processing_status'[r] = [status |-> "timeout", timestamp |-> now]
          /\ (request[r].handler \in {"cancelling", "timed_out"}
                  /\ request'[r].response # 0) =>
                request'[r].response = 408
          /\ (request[r].response = 408 /\ r \in DOMAIN processing_status') =>
                /\ r \in DOMAIN processing_status
                /\ processing_status'[r] = processing_status[r]
                /\ processing_status[r].status = "timeout"]_vars

\* A request has been answered with 408 while its thread had returned a
\* result; its task has ended and its status is "timeout".
TimedOutAfterTheThreadReturned ==
    \E r \in DOMAIN request :
        /\ request[r].response = 408
        /\ request[r].result # <<>>
        /\ request[r].task = "ended"
        /\ r \in DOMAIN processing_status
        /\ processing_status[r].status = "timeout"

\* C28: a step that changes the status table writes one entry, with the
\* current time as its timestamp; after it no entry of the table is older
\* than CACHE_EXPIRY seconds, every entry that has gone was older than
\* CACHE_EXPIRY seconds, and every other entry is as it was.
TableHoldsTheWrittenAndNothingExpired ==
    [][processing_status' # processing_status =>
          /\ \E r \in DOMAIN processing_status' :
                /\ processing_status'[r].timestamp = now
                /\ \A k \in DOMAIN processing_status' \ {r} :
                      /\ k \in DOMAIN processing_status
                      /\ processing_status'[k] = processing_status[k]
          /\ \A k \in DOMAIN processing_status' :
                now - processing_status'[k].timestamp <= CACHE_EXPIRY
          /\ \A k \in DOMAIN processing_status \ DOMAIN processing_status' :
                now - processing_status[k].timestamp > CACHE_EXPIRY]_vars

\* A job is still queued or being processed and the status table has no
\* entry of it any more: GET /status answers 404.
RunningJobLostItsStatus ==
    \E r \in DOMAIN request :
        /\ request[r].kind = "async"
        /\ request[r].task \in {"scheduled", "awaiting"}
        /\ "status" \notin DOMAIN get_processing_status(r)

====
